---- MODULE Spec2Model ----
(***************************************************************************)
(* Resume processing pipeline of the jobs board: the PDF extractor         *)
(* (pdf_extractor.py), the orchestrator and its storage (processor.py),    *)
(* the persisted analysis tables (models.py) and the API views that call   *)
(* the orchestrator (views.py).                                            *)
(*                                                                         *)
(* Texts are TLA+ strings and are processed character by character, as the *)
(* Python string methods do.  Floating point scores that are sums of       *)
(* tenths are kept in tenths (quality_score 0.5 is 5); the matcher's       *)
(* scores (matcher.py) are exact fractions.                                *)
(***************************************************************************)
EXTENDS Integers, Sequences, FiniteSets, TLC

VARIABLES
    db,       \* the committed database tables of resume_processor/models.py
    tmp,      \* temporary files that exist on disk
    created,  \* how many temporary files were ever created
    pc,       \* position of the invocation in progress ("idle" when none)
    req,      \* the inputs of the invocation in progress
    result,   \* the result dict process_resume is building
    ret,      \* what the entry point returned to its caller
    log,      \* stages the invocation in progress has run, in order
    pre,      \* the database as it was when the invocation started
    fn,       \* a direct call of one pure function: its name, argument, outcome
    latest,   \* history: per application, what its latest storage run that
              \* committed was given to store
    match,    \* what match_resume_to_job returned to process_and_match
    txn       \* per storage run of the concurrent scenario: its open transaction

vars ==
    <<db, tmp, created, pc, req, result, ret, log, pre, fn, latest, match, txn>>

Null == "None"

----------------------------------------------------------------------------
(* Python string methods, character by character *)

Chr(s, i) == SubSeq(s, i, i)

\* F applied to the value of x: x is evaluated once, as the argument of a
\* Python call is, however often F uses it
With(x, F(_)) == CHOOSE r \in {F(v) : v \in {x}} : TRUE

\* Ends(starts[1]) \o Ends(starts[2]) \o ...
Each(starts, Ends(_)) ==
    LET F[k \in 0..Len(starts)] ==
            IF k = 0 THEN <<>> ELSE F[k - 1] \o Ends(starts[k])
    IN F[Len(starts)]

Whitespace == {" ", "\n", "\t", "\r"}

UpperChars == "ABCDEFGHIJKLMNOPQRSTUVWXYZ"
LowerChars == "abcdefghijklmnopqrstuvwxyz"

UpperSet == {Chr(UpperChars, i) : i \in 1..26}
LowerSet == {Chr(LowerChars, i) : i \in 1..26}
ToLower ==
    [c \in UpperSet |-> Chr(LowerChars, CHOOSE i \in 1..26 : Chr(UpperChars, i) = c)]

LowerChar(c) == IF c \in UpperSet THEN ToLower[c] ELSE c

\* str.lower()
RECURSIVE Lower(_)
Lower(s) ==
    IF Len(s) = 0 THEN ""
    ELSE IF Len(s) = 1 THEN LowerChar(s)
    ELSE LET h == Len(s) \div 2
         IN Lower(SubSeq(s, 1, h)) \o Lower(SubSeq(s, h + 1, Len(s)))

\* k in t
Contains(t, k) ==
    \E i \in 1..(Len(t) - Len(k) + 1) : SubSeq(t, i, i + Len(k) - 1) = k

\* s.endswith(suf)
EndsWith(s, suf) ==
    /\ Len(s) >= Len(suf)
    /\ SubSeq(s, Len(s) - Len(suf) + 1, Len(s)) = suf

\* s.strip()
Solid(s, i) == Chr(s, i) \notin Whitespace
Strip(s) ==
    IF \A i \in 1..Len(s) : ~Solid(s, i) THEN ""
    ELSE SubSeq(s,
            CHOOSE i \in 1..Len(s) :
                Solid(s, i) /\ \A j \in 1..(i - 1) : ~Solid(s, j),
            CHOOSE i \in 1..Len(s) :
                Solid(s, i) /\ \A j \in (i + 1)..Len(s) : ~Solid(s, j))

\* len(s.split()): the number of maximal runs of non-whitespace characters
WordCount(s) ==
    Cardinality({i \in 1..Len(s) :
        /\ Chr(s, i) \notin Whitespace
        /\ (i = 1 \/ Chr(s, i - 1) \in Whitespace)})

\* sep.join(parts)
RECURSIVE Join(_, _)
Join(sep, parts) ==
    IF parts = <<>> THEN ""
    ELSE IF Len(parts) = 1 THEN parts[1]
    ELSE parts[1] \o sep \o Join(sep, Tail(parts))

\* s[:n]
Prefix(s, n) == SubSeq(s, 1, IF Len(s) < n THEN Len(s) ELSE n)

\* repr() of a list of strings, as an f-string renders it
ListRepr(xs) ==
    "[" \o Join(", ", [i \in 1..Len(xs) |-> "'" \o xs[i] \o "'"]) \o "]"

\* pathlib.Path(name).suffix: from the last dot of the name, none for a
\* name without a dot or with only a leading dot
Suffix(name) ==
    LET dots == {i \in 2..Len(name) : Chr(name, i) = "."}
    IN IF dots = {} THEN ""
       ELSE SubSeq(name, CHOOSE i \in dots : \A j \in dots : i >= j, Len(name))

----------------------------------------------------------------------------
(* PDFExtractor *)

supported_formats == {".pdf"}

Return(v) == [raised |-> FALSE, value |-> v]
Raise(e) == [raised |-> TRUE, exc |-> e]

\* the page loop of extract_text: a page with text is appended, a page
\* without text is only logged, a page whose extraction raises is recorded
\* with its error
PageEntries(pages) ==
    LET keep == {i \in 1..Len(pages) : ~pages[i].ok \/ pages[i].text # ""}
        F[i \in 0..Len(pages)] ==
            IF i = 0 THEN <<>>
            ELSE IF i \notin keep THEN F[i - 1]
            ELSE IF pages[i].ok
                 THEN Append(F[i - 1], [page_number |-> i, text |-> pages[i].text,
                                        word_count |-> WordCount(pages[i].text)])
                 ELSE Append(F[i - 1], [page_number |-> i, text |-> "",
                                        word_count |-> 0,
                                        error |-> "page extraction failed"])
    IN F[Len(pages)]

FullText(pages) ==
    LET F[i \in 0..Len(pages)] ==
            IF i = 0 THEN <<>>
            ELSE IF pages[i].ok /\ pages[i].text # ""
                 THEN Append(F[i - 1], pages[i].text)
                 ELSE F[i - 1]
    IN F[Len(pages)]

\* extract_text: path is [name, exists, pdf]; pdf is [opens, pages].  The
\* two checks at the top raise inside the try block before extracted_data
\* is bound, and the handler then assigns into extracted_data.
extract_text(path) ==
    IF ~path.exists \/ Lower(Suffix(path.name)) \notin supported_formats
    THEN Raise("UnboundLocalError")
    ELSE IF ~path.pdf.opens
    THEN Return([raw_text |-> "", pages |-> <<>>, metadata |-> <<>>,
                 success |-> FALSE, error |-> "cannot open pdf"])
    ELSE LET raw == Join("\n", FullText(path.pdf.pages))
         IN Return([raw_text |-> raw,
                    pages |-> PageEntries(path.pdf.pages),
                    metadata |-> [pages |-> Len(path.pdf.pages)],
                    success |-> TRUE, error |-> Null,
                    total_words |-> WordCount(raw)])

\* the dict extract_from_upload returns from its except clause
UploadFailure(e) ==
    [raw_text |-> "", pages |-> <<>>, metadata |-> <<>>,
     success |-> FALSE, error |-> e]

MinChars == 50
MinKeywords == 2
MinWords == 20
MaxWords == 5000

resume_keywords ==
    <<"experience", "education", "skills", "work", "job", "position", "company">>

found_keywords(text) ==
    Cardinality({i \in 1..Len(resume_keywords) :
                    Contains(Lower(text), Lower(resume_keywords[i]))})

\* the issues list of validate_extraction, in the order the checks append
ExtractionIssues(text) ==
    LET wc == WordCount(text)
    IN  (IF Len(Strip(text)) < MinChars
         THEN <<"Extracted text is too short (less than 50 characters)">>
         ELSE <<>>)
     \o (IF found_keywords(text) < MinKeywords
         THEN <<"Few resume-related keywords found">> ELSE <<>>)
     \o (IF wc < MinWords THEN <<"Very low word count">>
         ELSE IF wc > MaxWords
         THEN <<"Extremely high word count (possible OCR issues)">>
         ELSE <<>>)

\* quality_score in tenths
quality_score(extracted_data) ==
    LET text == extracted_data.raw_text
        wc == WordCount(text)
    IN  (IF Len(Strip(text)) >= MinChars THEN 2 ELSE 0)
      + (IF found_keywords(text) >= MinKeywords THEN 3 ELSE 0)
      + (IF MinWords <= wc /\ wc <= MaxWords THEN 3 ELSE 0)
      + (IF extracted_data.metadata.pages > 0 THEN 2 ELSE 0)

ValidThreshold == 5

IsValidAtThreshold(score) == score >= ValidThreshold

validate_extraction(extracted_data) ==
    IF ~extracted_data.success
    THEN [is_valid |-> FALSE,
          issues |-> <<"Extraction failed: " \o extracted_data.error>>,
          quality_score |-> 0]
    ELSE [is_valid |-> IsValidAtThreshold(quality_score(extracted_data)),
          issues |-> ExtractionIssues(extracted_data.raw_text),
          quality_score |-> quality_score(extracted_data)]

----------------------------------------------------------------------------
(* ResumeProcessor.validate_file *)

MaxFileSize == 10 * 1024 * 1024

\* returning at the first rule that fails
validate_file_first(uploaded_file) ==
    LET issues ==
            IF uploaded_file.size > MaxFileSize
            THEN <<"File size exceeds 10MB limit">>
            ELSE IF ~EndsWith(Lower(uploaded_file.name), ".pdf")
            THEN <<"Only PDF files are supported">>
            ELSE IF uploaded_file.size = 0 THEN <<"File is empty">> ELSE <<>>
    IN [is_valid |-> Len(issues) = 0,
        issues |-> issues,
        file_info |-> [name |-> uploaded_file.name,
                       size |-> uploaded_file.size,
                       content_type |-> uploaded_file.content_type]]

validate_file(uploaded_file) ==
    LET issues ==
            (IF uploaded_file.size > MaxFileSize
             THEN <<"File size exceeds 10MB limit">> ELSE <<>>)
         \o (IF ~EndsWith(Lower(uploaded_file.name), ".pdf")
             THEN <<"Only PDF files are supported">> ELSE <<>>)
         \o (IF uploaded_file.size = 0 THEN <<"File is empty">> ELSE <<>>)
    IN [is_valid |-> Len(issues) = 0,
        issues |-> issues,
        file_info |-> [name |-> uploaded_file.name,
                       size |-> uploaded_file.size,
                       content_type |-> uploaded_file.content_type]]

----------------------------------------------------------------------------
(* Python's re module: a backtracking matcher over pattern trees.          *)
(* M(p, s, i, ic) is the sequence of positions at which a match of p that  *)
(* starts at position i of s can end, in the order the backtracking search *)
(* tries them, so its head is the match re reports.  ic is re.IGNORECASE:  *)
(* the callers then pass the lowered text, and a literal compares by its   *)
(* lowered form.                                                           *)

L(s) == [t |-> "lit", s |-> s, ls |-> Lower(s)]
A(ps) == [t |-> "alt", ps |-> ps]
S(ps) == [t |-> "seq", ps |-> ps]
R(p, lo, hi) == [t |-> "rep", p |-> p, lo |-> lo, hi |-> hi]   \* hi = -1: unbounded
C(c) == [t |-> "cls", c |-> c]
B == [t |-> "b"]
Opt(p) == R(p, 0, 1)
Star(p) == R(p, 0, -1)
Plus(p) == R(p, 1, -1)

Digits == "0123456789"
DigitSet == {Chr(Digits, i) : i \in 1..10}
IsDigit(c) == c \in DigitSet
IsAlpha(c) == c \in UpperSet \/ c \in LowerSet
IsWord(c) == IsAlpha(c) \/ IsDigit(c) \/ c = "_"

\* a character class: \w, \s, \d, or a bracket expression given by its
\* letter range, its digit range and its other characters
ClsW == [kind |-> "w"]
ClsS == [kind |-> "s"]
ClsD == [kind |-> "d"]
ClsSet(alpha, digit, extra) ==
    [kind |-> "set", alpha |-> alpha, digit |-> digit, extra |-> extra]

InClass(c, cls) ==
    CASE cls.kind = "w" -> IsWord(c)
      [] cls.kind = "s" -> c \in Whitespace
      [] cls.kind = "d" -> IsDigit(c)
      [] OTHER -> \/ (cls.alpha /\ IsAlpha(c))
                  \/ (cls.digit /\ IsDigit(c))
                  \/ c \in cls.extra

WordAt(s, i) == i >= 1 /\ i <= Len(s) /\ IsWord(Chr(s, i))

RECURSIVE M(_, _, _, _)
M(p, s, i, ic) ==
    CASE p.t = "lit" ->
            LET n == Len(p.s)
            IN IF /\ i + n - 1 <= Len(s)
                  /\ SubSeq(s, i, i + n - 1) = (IF ic THEN p.ls ELSE p.s)
               THEN <<i + n>> ELSE <<>>
      [] p.t = "cls" ->
            IF i <= Len(s) /\ InClass(Chr(s, i), p.c) THEN <<i + 1>> ELSE <<>>
      [] p.t = "b" ->
            IF WordAt(s, i - 1) # WordAt(s, i) THEN <<i>> ELSE <<>>
      [] p.t = "alt" ->
            LET F[k \in 0..Len(p.ps)] ==
                    IF k = 0 THEN <<>> ELSE F[k - 1] \o M(p.ps[k], s, i, ic)
            IN F[Len(p.ps)]
      [] p.t = "seq" ->
            IF p.ps = <<>> THEN <<i>>
            ELSE With(M(Head(p.ps), s, i, ic),
                      LAMBDA first :
                        Each(first, LAMBDA j : M(S(Tail(p.ps)), s, j, ic)))
      [] p.t = "rep" ->
            With(IF p.hi = 0 THEN <<>> ELSE M(p.p, s, i, ic),
                 LAMBDA once :
                    Each(once,
                         LAMBDA j :
                            IF j = i THEN <<>>
                            ELSE M(R(p.p, IF p.lo > 0 THEN p.lo - 1 ELSE 0,
                                          IF p.hi > 0 THEN p.hi - 1 ELSE p.hi),
                                   s, j, ic))
                    \o (IF p.lo = 0 THEN <<i>> ELSE <<>>))

\* the match that starts at each position of s, if any
MatchAt(p, s, ic) ==
    With(IF ic THEN Lower(s) ELSE s,
         LAMBDA t : [i \in 1..(Len(t) + 1) |-> M(p, t, i, ic)])

\* the matches from position pos on, given the match at each position
RECURSIVE MatchesFrom(_, _, _)
MatchesFrom(at, s, pos) ==
    LET hits == {i \in pos..Len(at) : at[i] # <<>>}
    IN IF hits = {} THEN <<>>
       ELSE With(CHOOSE i \in hits : \A j \in hits : i <= j,
                 LAMBDA a :
                    <<[start |-> a, end |-> Head(at[a]),
                       group |-> SubSeq(s, a, Head(at[a]) - 1)]>>
                    \o MatchesFrom(at, s, IF Head(at[a]) = a THEN a + 1
                                          ELSE Head(at[a])))

\* re.finditer: the non-overlapping matches, left to right
finditer(p, s, ic) ==
    With(s, LAMBDA str :
        With(MatchAt(p, str, ic), LAMBDA at : MatchesFrom(at, str, 1)))

\* re.search: the first match, if any
search(p, s, ic) ==
    With(finditer(p, s, ic),
         LAMBDA ms :
            IF ms = <<>> THEN [found |-> FALSE]
            ELSE [found |-> TRUE, start |-> ms[1].start, end |-> ms[1].end,
                  group |-> ms[1].group])

\* the pieces of s between the matches ms
Pieces(s, ms) ==
    [k \in 1..(Len(ms) + 1) |->
        SubSeq(s, IF k = 1 THEN 1 ELSE ms[k - 1].end,
                  IF k = Len(ms) + 1 THEN Len(s) ELSE ms[k].start - 1)]

\* re.split(p, s)
resplit(p, s) ==
    With(s, LAMBDA str :
        With(finditer(p, str, FALSE), LAMBDA ms : Pieces(str, ms)))

\* s.split('\n')
SplitLines(s) == resplit(L("\n"), s)

\* s[a:b] with Python's 0-based, end-exclusive, clamped bounds
Slice(s, a, b) ==
    LET lo == IF a < 0 THEN 0 ELSE a
        hi == IF b > Len(s) THEN Len(s) ELSE b
    IN SubSeq(s, lo + 1, hi)

----------------------------------------------------------------------------
(* AIProcessor: the pattern tables and the four sub-extractions.  The      *)
(* spaCy model is the optional capability of __init__: nlp is NoNlp when   *)
(* self.nlp is None, and otherwise says what calling the model on the text *)
(* does, raise or give noun chunks.  The en dash of the year-range class   *)
(* is left out: texts are ASCII.                                           *)

Lits(ws) == A([i \in 1..Len(ws) |-> L(ws[i])])
Words(ws) == S(<<B, Lits(ws), B>>)
Sp1 == Plus(C(ClsS))
Sp0 == Star(C(ClsS))
W1 == Plus(C(ClsW))
Dot == Opt(L("."))

skill_patterns == <<
    Words(<<"Python", "Java", "JavaScript", "C++", "C#", "PHP", "Ruby", "Go",
            "Rust", "Swift", "Kotlin", "Scala">>),
    Words(<<"HTML", "CSS", "SQL", "NoSQL", "MongoDB", "PostgreSQL", "MySQL",
            "Redis", "Elasticsearch">>),
    Words(<<"React", "Angular", "Vue", "Node.js", "Django", "Flask", "Spring",
            "Laravel", "Express">>),
    Words(<<"AWS", "Azure", "GCP", "Docker", "Kubernetes", "Jenkins", "Git",
            "GitHub", "GitLab">>),
    Words(<<"Machine Learning", "AI", "Data Science", "Analytics",
            "Statistics", "R", "TensorFlow", "PyTorch">>),
    Words(<<"Project Management", "Agile", "Scrum", "Kanban", "JIRA",
            "Confluence", "Slack", "Microsoft Office">>),
    Words(<<"Photoshop", "Illustrator", "InDesign", "Figma", "Sketch",
            "Adobe Creative Suite">>),
    Words(<<"Sales", "Marketing", "Customer Service", "Leadership",
            "Communication", "Team Management">>) >>

Abbrev(a, b) == S(<<L(a), Dot, L(b), Dot>>)

institution_pattern ==
    S(<<B, Lits(<<"University", "College", "Institute", "School">>),
        Sp1, L("of"), Sp1, W1>>)

education_patterns == <<
    S(<<B, Lits(<<"Bachelor", "Master", "PhD", "Doctorate", "Associate",
                  "Diploma", "Certificate">>),
        Sp1, Lits(<<"of", "in", "degree">>), Sp1, W1>>),
    S(<<B, A(<<Abbrev("B", "A"), Abbrev("B", "S"), Abbrev("M", "A"),
               Abbrev("M", "S"), S(<<L("Ph"), Dot, L("D"), Dot>>),
               L("MBA"), L("MFA")>>), B>>),
    institution_pattern,
    Words(<<"Computer Science", "Engineering", "Business", "Marketing",
            "Finance", "Economics", "Psychology">>) >>

Year4 == A(<<S(<<L("20"), R(C(ClsD), 2, 2)>>), S(<<L("19"), R(C(ClsD), 2, 2)>>)>>)

duration_pattern ==
    S(<<B, Year4, Sp0, L("-"), Sp0,
        A(<<S(<<L("20"), R(C(ClsD), 2, 2)>>), S(<<L("19"), R(C(ClsD), 2, 2)>>),
            L("Present"), L("Current")>>), B>>)

experience_patterns == <<
    Words(<<"Software Engineer", "Developer", "Programmer", "Designer",
            "Manager", "Director", "Analyst", "Consultant">>),
    S(<<B, Lits(<<"Senior", "Junior", "Lead", "Principal", "Staff",
                  "Associate", "Assistant">>), Sp1, W1>>),
    duration_pattern,
    S(<<B, A(<<S(<<L("year"), Opt(L("s"))>>), S(<<L("month"), Opt(L("s"))>>)>>),
        Sp1, L("of"), Sp1, L("experience"), B>>) >>

\* every match of every pattern of a table, pattern by pattern
AllMatches(patterns, text) ==
    LET F[k \in 0..Len(patterns)] ==
            IF k = 0 THEN <<>>
            ELSE F[k - 1] \o finditer(patterns[k], text, TRUE)
    IN F[Len(patterns)]

\* _get_context
get_context(text, start, end) ==
    Strip(Slice(text, start - 50, end + 50))

\* the test that suppresses a skill already in the list
SkillSeen(skill, skills) == \E j \in 1..Len(skills) : skills[j].name = skill

\* the body of the loop of _extract_skills, for the match m
AddSkill(skills, text, m) ==
    LET skill == Strip(m.group)
    IN IF skill # "" /\ ~SkillSeen(skill, skills)
       THEN Append(skills,
                   [name |-> skill, confidence |-> 8, source |-> "pattern_match",
                    context |-> get_context(text, m.start - 1, m.end - 1)])
       ELSE skills

RECURSIVE SkillsUpTo(_, _, _)
SkillsUpTo(ms, k, text) ==
    IF k = 0 THEN <<>>
    ELSE With(SkillsUpTo(ms, k - 1, text),
              LAMBDA skills : AddSkill(skills, text, ms[k]))

\* self.nlp is None
NoNlp == [loaded |-> FALSE]

\* _is_likely_skill
is_likely_skill(text) ==
    \E w \in {"proficient", "experienced", "skilled", "knowledge",
               "expertise", "familiar"} : Contains(Lower(text), w)

\* the body of the noun-chunk loop of _extract_skills
AddChunk(skills, text, chunk) ==
    LET skill_text == Strip(chunk.text)
    IN IF /\ WordCount(chunk.text) <= 3
          /\ skill_text # "" /\ ~SkillSeen(skill_text, skills)
          /\ is_likely_skill(skill_text)
       THEN Append(skills,
                   [name |-> skill_text, confidence |-> 6,
                    source |-> "spacy_noun_chunk",
                    context |-> get_context(text, chunk.start_char,
                                            chunk.end_char)])
       ELSE skills

RECURSIVE ChunkSkills(_, _, _, _)
ChunkSkills(skills, text, chunks, k) ==
    IF k = 0 THEN skills
    ELSE With(ChunkSkills(skills, text, chunks, k - 1),
              LAMBDA sofar : AddChunk(sofar, text, chunks[k]))

\* _extract_skills; confidence in tenths.  When self.nlp(text) raises, the
\* handler logs, and the method returns the list as the pattern pass left
\* it with the confidence still 0.0.
extract_skills(text, nlp) ==
    With(AllMatches(skill_patterns, text),
         LAMBDA ms :
            With(SkillsUpTo(ms, Len(ms), text),
                 LAMBDA found :
                    IF nlp.loaded /\ nlp.raises
                    THEN [skills |-> found, confidence |-> 0]
                    ELSE With(IF nlp.loaded
                              THEN ChunkSkills(found, text, nlp.chunks,
                                               Len(nlp.chunks))
                              ELSE found,
                              LAMBDA skills :
                                [skills |-> skills,
                                 confidence |-> IF Len(skills) < 9
                                                THEN Len(skills) ELSE 9])))

AnyIn(indicators, text) == \E w \in indicators : Contains(text, w)

\* the window range(max(0, i-2), min(len(lines), i+3)), 1-based
Window(lines, i) ==
    (IF i - 2 < 1 THEN 1 ELSE i - 2)..(IF i + 2 > Len(lines) THEN Len(lines) ELSE i + 2)

\* _extract_company_from_context
extract_company_from_context(lines, i) ==
    LET hits == {j \in Window(lines, i) :
                    AnyIn({"inc", "corp", "ltd", "company", "llc"},
                          Lower(Strip(lines[j])))}
    IN IF hits = {} THEN ""
       ELSE Strip(lines[CHOOSE j \in hits : \A k \in hits : j <= k])

\* _extract_duration_from_context
extract_duration_from_context(lines, i) ==
    LET hits == {j \in Window(lines, i) :
                    search(duration_pattern, Strip(lines[j]), FALSE).found}
    IN IF hits = {} THEN ""
       ELSE search(duration_pattern,
                   Strip(lines[CHOOSE j \in hits : \A k \in hits : j <= k]),
                   FALSE).group

\* the entries line i of a section contributes to _extract_experience
LineExperience(lines, i) ==
    With(Strip(lines[i]),
         LAMBDA line :
            With(AllMatches(experience_patterns, line),
                 LAMBDA ms :
                    [k \in 1..Len(ms) |->
                        [position |-> Strip(ms[k].group),
                         company |-> extract_company_from_context(lines, i),
                         duration |-> extract_duration_from_context(lines, i),
                         confidence |-> 7,
                         source |-> "pattern_match",
                         context |-> line]]))

SectionExperience(section) ==
    With(SplitLines(section),
         LAMBDA lines :
            Each([i \in 1..Len(lines) |-> i],
                 LAMBDA i : LineExperience(lines, i)))

\* the sections of _extract_experience that mention experience
IsExperienceSection(section) ==
    /\ section # ""
    /\ AnyIn({"experience", "work", "employment", "career"}, Lower(section))

\* _extract_experience
extract_experience(text) ==
    With(Each(resplit(S(<<L("\n"), Sp0, L("\n")>>), text),
              LAMBDA sec :
                With(Strip(sec),
                     LAMBDA section :
                        IF IsExperienceSection(section)
                        THEN SectionExperience(section) ELSE <<>>)),
         LAMBDA experience :
            [experience |-> experience,
             confidence |-> IF 2 * Len(experience) < 8
                            THEN 2 * Len(experience) ELSE 8])

\* the lines of _find_education_section that open an education section
EducationLines(lines) ==
    {i \in 1..Len(lines) :
        AnyIn({"education", "academic", "degree", "university", "college"},
              Lower(lines[i]))}

\* _find_education_section
find_education_section(text) ==
    With(SplitLines(text),
         LAMBDA lines :
            With(EducationLines(lines),
                 LAMBDA hits :
                    IF hits = {} THEN text
                    ELSE LET i == CHOOSE j \in hits : \A k \in hits : j <= k
                         IN Join("\n", SubSeq(lines, i,
                                    IF i + 9 > Len(lines) THEN Len(lines)
                                    ELSE i + 9))))

\* _extract_institution_from_context
extract_institution_from_context(text, match_start) ==
    LET m == search(institution_pattern,
                    Slice(text, match_start - 100, match_start + 100), TRUE)
    IN IF m.found THEN m.group ELSE ""

\* _extract_year_from_context
extract_year_from_context(text, match_start) ==
    LET m == search(S(<<B, Year4, B>>),
                    Slice(text, match_start - 50, match_start + 50), FALSE)
    IN IF m.found THEN m.group ELSE ""

\* the entries of _extract_education for the matches ms in the section
EducationEntries(section, ms) ==
    [k \in 1..Len(ms) |->
        [degree |-> Strip(ms[k].group),
         institution |-> extract_institution_from_context(section, ms[k].start - 1),
         year |-> extract_year_from_context(section, ms[k].start - 1),
         confidence |-> 7,
         source |-> "pattern_match",
         context |-> ms[k].group]]

\* _extract_education
extract_education(text) ==
    With(find_education_section(text),
         LAMBDA section :
            With(IF section = "" THEN <<>>
                 ELSE AllMatches(education_patterns, section),
                 LAMBDA ms :
                    [education |-> EducationEntries(section, ms),
                     confidence |-> IF 2 * Len(ms) < 8 THEN 2 * Len(ms) ELSE 8]))

email_pattern ==
    S(<<B, Plus(C(ClsSet(TRUE, TRUE, {".", "_", "%", "+", "-"}))), L("@"),
        Plus(C(ClsSet(TRUE, TRUE, {".", "-"}))), L("."),
        R(C(ClsSet(TRUE, FALSE, {"|"})), 2, -1), B>>)

Sep == Opt(C(ClsSet(FALSE, FALSE, {"-", "."})))

phone_pattern ==
    S(<<B, Opt(S(<<Opt(L("+")), L("1"), Sep>>)), Opt(L("(")),
        R(C(ClsD), 3, 3), Opt(L(")")), Sep, R(C(ClsD), 3, 3), Sep,
        R(C(ClsD), 4, 4), B>>)

linkedin_pattern ==
    S(<<L("linkedin.com/in/"), Plus(C(ClsSet(TRUE, TRUE, {"-"})))>>)

\* ''.join(phone_match.groups()): the three digit groups end the match, so
\* they are its last ten digits
PhoneGroups(group) ==
    LET ds == {i \in 1..Len(group) : IsDigit(Chr(group, i))}
        F[i \in 0..Len(group)] ==
            IF i = 0 THEN ""
            ELSE IF i \in ds /\ Cardinality({j \in ds : j >= i}) <= 10
                 THEN F[i - 1] \o Chr(group, i)
                 ELSE F[i - 1]
    IN F[Len(group)]

\* _extract_contact_info: a sparse mapping, a key is present only if matched
extract_contact_info(text) ==
    LET email == search(email_pattern, text, FALSE)
        phone == search(phone_pattern, text, FALSE)
        linkedin == search(linkedin_pattern, text, FALSE)
    IN  (IF email.found THEN "email" :> email.group ELSE <<>>)
     @@ (IF phone.found THEN "phone" :> PhoneGroups(phone.group) ELSE <<>>)
     @@ (IF linkedin.found THEN "linkedin" :> linkedin.group ELSE <<>>)

\* _empty_entities
empty_entities ==
    [skills |-> <<>>, experience |-> <<>>, education |-> <<>>,
     contact_info |-> <<>>, confidence_scores |-> <<>>,
     overall_confidence |-> [num |-> 0, den |-> 1]]

\* the dict with the overall confidence taken over four categories
EntitiesOverFour(sk, ex, ed, contact) ==
    [skills |-> sk.skills,
     experience |-> ex.experience,
     education |-> ed.education,
     contact_info |-> contact,
     confidence_scores |-> ("skills" :> sk.confidence)
                        @@ ("experience" :> ex.confidence)
                        @@ ("education" :> ed.confidence),
     overall_confidence |->
        [num |-> sk.confidence + ex.confidence + ed.confidence,
         den |-> 10 * 4]]

\* the dict extract_entities builds from the sub-extractions.
\* overall_confidence is the mean of the values of confidence_scores, kept
\* as the fraction num/den of tenths.
Entities(sk, ex, ed, contact) ==
    LET scores == ("skills" :> sk.confidence)
               @@ ("experience" :> ex.confidence)
               @@ ("education" :> ed.confidence)
    IN [skills |-> sk.skills,
        experience |-> ex.experience,
        education |-> ed.education,
        contact_info |-> contact,
        confidence_scores |-> scores,
        overall_confidence |->
            [num |-> sk.confidence + ex.confidence + ed.confidence,
             den |-> 10 * Cardinality(DOMAIN scores)]]

\* extract_entities
extract_entities(text, nlp) ==
    IF text = "" \/ Strip(text) = "" THEN empty_entities
    ELSE With(<<extract_skills(text, nlp), extract_experience(text),
                extract_education(text), extract_contact_info(text)>>,
              LAMBDA e : Entities(e[1], e[2], e[3], e[4]))

----------------------------------------------------------------------------
(* Scores that are quotients (matched / required, total / years, rank /    *)
(* rank) are kept as exact fractions in lowest terms, so equal scores are  *)
(* equal values.                                                           *)

RECURSIVE GCD(_, _)
GCD(a, b) == IF b = 0 THEN a ELSE GCD(b, a % b)

Q(n, d) == [num |-> n \div GCD(n, d), den |-> d \div GCD(n, d)]

QLe(a, b) == a.num * b.den <= b.num * a.den
QLt(a, b) == a.num * b.den < b.num * a.den
QAdd(a, b) == Q(a.num * b.den + b.num * a.den, a.den * b.den)
QMul(a, b) == Q(a.num * b.num, a.den * b.den)
QMin(a, b) == IF QLe(a, b) THEN a ELSE b
QMax(a, b) == IF QLe(a, b) THEN b ELSE a

Zero == Q(0, 1)
One == Q(1, 1)

\* dict.get(key, default)
Get(d, key, default) == IF key \in DOMAIN d THEN d[key] ELSE default

----------------------------------------------------------------------------
(* The persistence boundary: the tables of resume_processor/models.py and  *)
(* the two storage methods of ResumeProcessor.  A child table is a         *)
(* sequence of rows in insertion order; ids are 1, 2, ...; 0 is None.      *)

NumApplications == 1    \* JobApplication rows 1..NumApplications exist
NumJobs == 1            \* Job rows 1..NumJobs exist

Applications == 1..NumApplications
Jobs == 1..NumJobs
NoId == 0

EmptyDb ==
    [analyses |-> <<>>, skills |-> <<>>, experiences |-> <<>>,
     education |-> <<>>, match_scores |-> <<>>]

MaxRawText == 10000

Filter(rows, Keep(_)) ==
    LET F[i \in 0..Len(rows)] ==
            IF i = 0 THEN <<>>
            ELSE IF Keep(rows[i]) THEN Append(F[i - 1], rows[i]) ELSE F[i - 1]
    IN F[Len(rows)]

Ids(rows) == {rows[i].id : i \in 1..Len(rows)}
NextId(rows) ==
    IF rows = <<>> THEN 1
    ELSE 1 + (CHOOSE m \in Ids(rows) : \A n \in Ids(rows) : m >= n)

\* ResumeAnalysis.objects.get_or_create(application=..., defaults=...) and
\* the update of an existing row by save(); gives the tables and the row id
GetOrCreateAnalysis(d, application_id, extraction_result, entities_result) ==
    LET raw == Prefix(extraction_result.raw_text, MaxRawText)
        conf == entities_result.overall_confidence
        have == {i \in 1..Len(d.analyses) :
                    d.analyses[i].application = application_id}
    IN IF have = {}
       THEN LET id == NextId(d.analyses)
            IN [db |-> [d EXCEPT !.analyses =
                            Append(@, [id |-> id, application |-> application_id,
                                       raw_text |-> raw,
                                       confidence_score |-> conf])],
                id |-> id]
       ELSE LET i == CHOOSE j \in have : TRUE
            IN [db |-> [d EXCEPT !.analyses[i].raw_text = raw,
                                 !.analyses[i].confidence_score = conf],
                id |-> d.analyses[i].id]

\* the delete left out: the old children stay
DeleteChildrenKept(rows, analysis_id) == rows

\* <Child>.objects.filter(analysis=analysis).delete()
DeleteChildren(rows, analysis_id) ==
    LET Other(r) == r.analysis # analysis_id IN Filter(rows, Other)

\* the rows of a child table that belong to the analysis
RowsOf(rows, id) == Filter(rows, LAMBDA r : r.analysis = id)

SkillRow(analysis_id, skill) ==
    [analysis |-> analysis_id, skill_name |-> skill.name,
     confidence |-> skill.confidence, source_text |-> skill.context]

\* exp.get('description', ''): the extractor sets no description
ExperienceRow(analysis_id, exp) ==
    [analysis |-> analysis_id, company_name |-> exp.company,
     position |-> exp.position, duration |-> exp.duration,
     description |-> "", confidence |-> exp.confidence]

\* int(value) of IntegerField.get_prep_value: the decimal digits of s
IsNumeric(s) == s # "" /\ \A i \in 1..Len(s) : IsDigit(Chr(s, i))
DigitValue(c) == (CHOOSE i \in 1..10 : Chr(Digits, i) = c) - 1
ParseInt(s) ==
    LET F[i \in 0..Len(s)] ==
            IF i = 0 THEN 0 ELSE 10 * F[i - 1] + DigitValue(Chr(s, i))
    IN F[Len(s)]

\* whether ExtractedEducation.objects.create accepts the entry: the
\* graduation_year it is given is edu.get('year'), a string, and the
\* IntegerField raises ValueError for a string that is no number
EducationAccepted(edu) == IsNumeric(edu.year)

\* edu.get('field_of_study', ''): the extractor sets no field_of_study
EducationRow(analysis_id, edu) ==
    [analysis |-> analysis_id, institution |-> edu.institution,
     degree |-> edu.degree, field_of_study |-> "",
     graduation_year |-> ParseInt(edu.year), confidence |-> edu.confidence]

\* The statements of _store_analysis_results in order, on the tables d the
\* transaction sees.  work is the tables as the statements left them: all
\* of them done, or those before the one that raised.
StoreAnalysisSteps(d, application_id, extraction_result, entities_result) ==
    IF application_id \notin Applications
    THEN [raised |-> TRUE, exc |-> "JobApplication.DoesNotExist",
          work |-> d, id |-> NoId]
    ELSE
    LET g == GetOrCreateAnalysis(d, application_id, extraction_result,
                                 entities_result)
        id == g.id
        sk == entities_result.skills
        ex == entities_result.experience
        ed == entities_result.education
        s2 == [g.db EXCEPT !.skills =
                  DeleteChildren(@, id) \o [k \in 1..Len(sk) |-> SkillRow(id, sk[k])]]
        s3 == [s2 EXCEPT !.experiences =
                  DeleteChildren(@, id)
                  \o [k \in 1..Len(ex) |-> ExperienceRow(id, ex[k])]]
        bad == {k \in 1..Len(ed) : ~EducationAccepted(ed[k])}
        upto == IF bad = {} THEN Len(ed)
                ELSE (CHOOSE k \in bad : \A j \in bad : k <= j) - 1
        s4 == [s3 EXCEPT !.education =
                  DeleteChildren(@, id)
                  \o [k \in 1..upto |-> EducationRow(id, ed[k])]]
    IN IF bad = {}
       THEN [raised |-> FALSE, exc |-> Null, work |-> s4, id |-> id]
       ELSE [raised |-> TRUE, exc |-> "ValueError", work |-> s4, id |-> NoId]

\* without the decorator: each statement's effect stays as it was made
AtomicNoRollback(before, outcome) == outcome.work

\* @transaction.atomic: the statements' effects are committed together when
\* the method returns and are all rolled back when it raises
Atomic(before, outcome) == IF outcome.raised THEN before ELSE outcome.work

\* _store_analysis_results
store_analysis_results(d, application_id, extraction_result, entities_result) ==
    LET o == StoreAnalysisSteps(d, application_id, extraction_result,
                                entities_result)
    IN [raised |-> o.raised, exc |-> o.exc, id |-> o.id, db |-> Atomic(d, o)]

\* the statements of _store_match_score; scores are in hundredths
StoreMatchSteps(d, analysis_id, job_id, match_result) ==
    IF analysis_id \notin Ids(d.analyses)
    THEN [raised |-> TRUE, exc |-> "ResumeAnalysis.DoesNotExist", work |-> d]
    ELSE IF job_id \notin Jobs
    THEN [raised |-> TRUE, exc |-> "Job.DoesNotExist", work |-> d]
    ELSE LET row == [analysis |-> analysis_id, job |-> job_id,
                     overall_score |-> match_result.overall_score,
                     skills_match |->
                        QMul(match_result.skills_match, Q(100, 1)),
                     experience_match |->
                        QMul(match_result.experience_match, Q(100, 1)),
                     education_match |->
                        QMul(match_result.education_match, Q(100, 1))]
             have == {i \in 1..Len(d.match_scores) :
                        /\ d.match_scores[i].analysis = analysis_id
                        /\ d.match_scores[i].job = job_id}
         IN [raised |-> FALSE, exc |-> Null,
             work |-> IF have = {}
                      THEN [d EXCEPT !.match_scores = Append(@, row)]
                      ELSE [d EXCEPT !.match_scores[CHOOSE i \in have : TRUE] = row]]

\* _store_match_score
store_match_score(d, analysis_id, job_id, match_result) ==
    LET o == StoreMatchSteps(d, analysis_id, job_id, match_result)
    IN [raised |-> o.raised, exc |-> o.exc, db |-> Atomic(d, o)]

----------------------------------------------------------------------------
(* difflib.SequenceMatcher(None, a, b).ratio(): twice the number of        *)
(* characters in the matching blocks over the total length, the blocks     *)
(* found by taking the longest common block and recursing on both sides.   *)

\* the length of the common run that starts at a[i] and b[j]
Run(a, i, ahi, b, j, bhi) ==
    LET most == IF ahi - i < bhi - j THEN ahi - i + 1 ELSE bhi - j + 1
    IN CHOOSE k \in 0..most :
        /\ SubSeq(a, i, i + k - 1) = SubSeq(b, j, j + k - 1)
        /\ k = most \/ Chr(a, i + k) # Chr(b, j + k)

\* find_longest_match: the longest block, the earliest in a among the
\* longest, the earliest in b among those
find_longest_match(a, alo, ahi, b, blo, bhi) ==
    With([p \in (alo..ahi) \X (blo..bhi) |->
            Run(a, p[1], ahi, b, p[2], bhi)],
         LAMBDA run :
            LET best == CHOOSE p \in DOMAIN run :
                    \A q \in DOMAIN run :
                        \/ run[p] > run[q]
                        \/ /\ run[p] = run[q]
                           /\ \/ p[1] < q[1]
                              \/ p[1] = q[1] /\ p[2] <= q[2]
            IN [i |-> best[1], j |-> best[2], k |-> run[best]])

RECURSIVE MatchingChars(_, _, _, _, _, _)
MatchingChars(a, alo, ahi, b, blo, bhi) ==
    IF alo > ahi \/ blo > bhi THEN 0
    ELSE With(find_longest_match(a, alo, ahi, b, blo, bhi),
              LAMBDA m :
                IF m.k = 0 THEN 0
                ELSE m.k
                   + MatchingChars(a, alo, m.i - 1, b, blo, m.j - 1)
                   + MatchingChars(a, m.i + m.k, ahi, b, m.j + m.k, bhi))

ratio(a, b) ==
    IF Len(a) + Len(b) = 0 THEN One
    ELSE Q(2 * MatchingChars(a, 1, Len(a), b, 1, Len(b)), Len(a) + Len(b))

SimilarityThreshold == Q(4, 5)

\* ratio > 0.8
Similar(a, b) == QLt(SimilarityThreshold, ratio(a, b))

----------------------------------------------------------------------------
(* ResumeMatcher.  A dict is a record and a missing key is a missing       *)
(* field; an entry of skills_required that is no dict is [str |-> s], s    *)
(* its str().                                                              *)

weights ==
    [skills |-> Q(4, 10), experience |-> Q(3, 10), education |-> Q(2, 10),
     overall_text |-> Q(1, 10)]

IsDict(skill) == "str" \notin DOMAIN skill

\* description + ' ' + requirements
JobDescription(job_requirements) ==
    Get(job_requirements, "description", "") \o " "
        \o Get(job_requirements, "requirements", "")

\* [skill['name'].lower() for skill in ...]: KeyError for a dict without name
SkillNames(skills) ==
    IF \E k \in 1..Len(skills) : "name" \notin DOMAIN skills[k]
    THEN Raise("'name'")
    ELSE Return([k \in 1..Len(skills) |-> Lower(skills[k].name)])

\* the first loop of _extract_skills_from_requirements
ListedSkills(job_requirements) ==
    LET listed == Get(job_requirements, "skills_required", <<>>)
    IN IF \E k \in 1..Len(listed) :
            IsDict(listed[k]) /\ "name" \notin DOMAIN listed[k]
       THEN Raise("'name'")
       ELSE Return([k \in 1..Len(listed) |->
                        IF IsDict(listed[k]) THEN Lower(listed[k].name)
                        ELSE Lower(listed[k].str)])

\* the matcher's skill_patterns are the first five of the extractor's
job_skill_patterns == SubSeq(skill_patterns, 1, 5)

\* the second loop: a mined skill is appended unless the list has it
RECURSIVE MinedSkills(_, _, _)
MinedSkills(skills, ms, k) ==
    IF k = 0 THEN skills
    ELSE With(MinedSkills(skills, ms, k - 1),
              LAMBDA sofar :
                With(Lower(ms[k].group),
                     LAMBDA skill :
                        IF \E j \in 1..Len(sofar) : sofar[j] = skill
                        THEN sofar ELSE Append(sofar, skill)))

\* _extract_skills_from_requirements
extract_skills_from_requirements(job_requirements) ==
    With(ListedSkills(job_requirements),
         LAMBDA listed :
            IF listed.raised THEN listed
            ELSE With(AllMatches(job_skill_patterns,
                                 JobDescription(job_requirements)),
                      LAMBDA ms :
                        Return(MinedSkills(listed.value, ms, Len(ms)))))

\* the inner loop of _calculate_skills_match: the first resume skill of
\* the highest ratio above the threshold; an empty name is falsy
BestMatch(req_skill, resume_skills) ==
    LET ok == {j \in 1..Len(resume_skills) :
                Similar(req_skill, resume_skills[j])}
    IN IF ok = {} THEN [found |-> FALSE]
       ELSE LET j == CHOOSE j \in ok : \A i \in ok :
                        \/ QLt(ratio(req_skill, resume_skills[i]),
                               ratio(req_skill, resume_skills[j]))
                        \/ /\ ratio(req_skill, resume_skills[i])
                                = ratio(req_skill, resume_skills[j])
                           /\ j <= i
            IN [found |-> resume_skills[j] # "",
                skill |-> resume_skills[j],
                similarity |-> ratio(req_skill, resume_skills[j])]

\* the dict of the except clause of _calculate_skills_match
SkillsMatchFailed ==
    [score |-> Zero, matched_skills |-> <<>>, missing_skills |-> <<>>,
     extra_skills |-> <<>>]

\* the skills match counting the distinct resume skills found instead of
\* the required skills matched
SkillsMatchDistinct(resume_skills, required_skills) ==
    LET best == [k \in 1..Len(required_skills) |->
                    BestMatch(required_skills[k], resume_skills)]
        found == {best[k].skill : k \in {k \in 1..Len(best) : best[k].found}}
    IN [score |-> IF required_skills = <<>> THEN Q(1, 2)
                  ELSE Q(Cardinality(found), Len(required_skills)),
        matched_skills |-> <<>>, missing_skills |-> <<>>,
        extra_skills |-> <<>>]

SkillsMatch(resume_skills, required_skills) ==
    IF required_skills = <<>>
    THEN [score |-> Q(1, 2), matched_skills |-> <<>>, missing_skills |-> <<>>,
          extra_skills |-> resume_skills]
    ELSE With([k \in 1..Len(required_skills) |->
                    BestMatch(required_skills[k], resume_skills)],
              LAMBDA best :
                LET hit == {k \in 1..Len(best) : best[k].found}
                    found == {best[k].skill : k \in hit}
                IN [score |-> Q(Cardinality(hit), Len(required_skills)),
                    matched_skills |->
                        Each([k \in 1..Len(best) |-> k],
                             LAMBDA k :
                                IF k \in hit
                                THEN <<[required |-> required_skills[k],
                                        found |-> best[k].skill,
                                        similarity |-> best[k].similarity]>>
                                ELSE <<>>),
                    missing_skills |->
                        Each([k \in 1..Len(best) |-> k],
                             LAMBDA k : IF k \in hit THEN <<>>
                                        ELSE <<required_skills[k]>>),
                    extra_skills |->
                        Each(resume_skills,
                             LAMBDA s : IF s \in found THEN <<>> ELSE <<s>>),
                    total_required |-> Len(required_skills),
                    total_matched |-> Cardinality(hit)])

\* _calculate_skills_match
calculate_skills_match(resume_data, job_requirements) ==
    With(<<SkillNames(Get(resume_data, "skills", <<>>)),
           extract_skills_from_requirements(job_requirements)>>,
         LAMBDA a :
            IF a[1].raised \/ a[2].raised THEN SkillsMatchFailed
            ELSE SkillsMatch(a[1].value, a[2].value))

\* the digits a match begins with: its group (\d+)
LeadingDigits(group) ==
    LET n == Cardinality({i \in 1..Len(group) :
                \A j \in 1..i : IsDigit(Chr(group, j))})
    IN SubSeq(group, 1, n)

YearWord(w) == S(<<L(w), Opt(L("s"))>>)

years_pattern ==
    S(<<Plus(C(ClsD)), Sp0, A(<<YearWord("year"), YearWord("yr")>>),
        Sp1, L("of"), Sp1, L("experience")>>)

\* in the order the dict is iterated
level_patterns == <<
    [level |-> "entry",
     pattern |-> Words(<<"entry", "junior", "beginner", "graduate", "fresh">>)],
    [level |-> "mid",
     pattern |-> Words(<<"mid", "intermediate", "experienced">>)],
    [level |-> "senior",
     pattern |-> Words(<<"senior", "lead", "principal", "staff">>)],
    [level |-> "executive",
     pattern |-> Words(<<"executive", "director", "manager", "head">>)] >>

\* the key of the first entry of a pattern table that the text matches
FirstFound(table, key, text) ==
    With(text, LAMBDA t :
        With({k \in 1..Len(table) : search(table[k].pattern, t, TRUE).found},
             LAMBDA hits :
                IF hits = {} THEN <<>>
                ELSE LET k == CHOOSE k \in hits : \A j \in hits : k <= j
                     IN key :> table[k][key]))

\* _extract_experience_requirements: a sparse dict of years and level
extract_experience_requirements(job_requirements) ==
    With(JobDescription(job_requirements),
         LAMBDA description :
            With(search(years_pattern, description, TRUE),
                 LAMBDA years_match :
                    (IF years_match.found
                     THEN "years" :> ParseInt(LeadingDigits(years_match.group))
                     ELSE <<>>)
                    @@ FirstFound(level_patterns, "level", description)))

degree_patterns == <<
    [degree |-> "bachelor",
     pattern |-> S(<<B, A(<<L("bachelor"), L("bachelor's"), Abbrev("b", "a"),
                            Abbrev("b", "s")>>), B>>)],
    [degree |-> "master",
     pattern |-> S(<<B, A(<<L("master"), L("master's"), Abbrev("m", "a"),
                            Abbrev("m", "s"), L("mba")>>), B>>)],
    [degree |-> "phd",
     pattern |-> S(<<B, A(<<S(<<L("ph"), Dot, L("d"), Dot>>), L("doctorate"),
                            L("doctoral")>>), B>>)] >>

field_pattern ==
    Words(<<"Computer Science", "Engineering", "Business", "Marketing",
            "Finance", "Economics">>)

\* _extract_education_requirements: a sparse dict of degree and field
extract_education_requirements(job_requirements) ==
    With(JobDescription(job_requirements),
         LAMBDA description :
            With(search(field_pattern, description, TRUE),
                 LAMBDA m :
                    FirstFound(degree_patterns, "degree", description)
                    @@ (IF m.found THEN "field" :> Lower(m.group) ELSE <<>>)))

\* the years one entry adds in _calculate_total_experience_years
EntryYears(exp) ==
    With(search(S(<<Plus(C(ClsD)), Sp0, YearWord("year")>>),
                Get(exp, "duration", ""), TRUE),
         LAMBDA m : IF m.found THEN ParseInt(LeadingDigits(m.group)) ELSE 0)

\* _calculate_total_experience_years
calculate_total_experience_years(experience) ==
    LET F[k \in 0..Len(experience)] ==
            IF k = 0 THEN 0 ELSE F[k - 1] + EntryYears(experience[k])
    IN F[Len(experience)]

\* _determine_experience_level
determine_experience_level(years) ==
    IF years < 2 THEN "entry"
    ELSE IF years < 5 THEN "mid"
    ELSE IF years < 10 THEN "senior"
    ELSE "executive"

level_hierarchy ==
    [entry |-> 1, mid |-> 2, senior |-> 3, executive |-> 4]

degree_hierarchy == <<
    [level |-> "certificate", score |-> 1], [level |-> "diploma", score |-> 2],
    [level |-> "associate", score |-> 3], [level |-> "bachelor", score |-> 4],
    [level |-> "master", score |-> 5], [level |-> "phd", score |-> 6] >>

\* hierarchy.get(name, 0)
Rank(hierarchy, name) ==
    LET at == {k \in 1..Len(hierarchy) : hierarchy[k].level = name}
    IN IF at = {} THEN 0 ELSE hierarchy[CHOOSE k \in at : TRUE].score

\* the shared body of _calculate_level_match and _calculate_degree_match
RankMatch(actual_score, required_score) ==
    IF actual_score >= required_score THEN One
    ELSE QMax(Zero, Q(actual_score, required_score))

\* _calculate_level_match
calculate_level_match(actual_level, required_level) ==
    RankMatch(Get(level_hierarchy, actual_level, 0),
              Get(level_hierarchy, required_level, 0))

\* _calculate_degree_match
calculate_degree_match(actual_degree, required_degree) ==
    RankMatch(Rank(degree_hierarchy, actual_degree),
              Rank(degree_hierarchy, required_degree))

\* the years part of the experience score
\* the years score without its cap at 1.0
YearsScoreUncapped(total_years, required_years) ==
    Q(total_years, IF required_years > 1 THEN required_years ELSE 1)

YearsScore(total_years, required_years) ==
    IF total_years >= required_years
    THEN QMin(One, Q(total_years,
                     IF required_years > 1 THEN required_years ELSE 1))
    ELSE QMax(Zero, Q(total_years, required_years))

\* the score with the neutral default of the skills score when the job
\* states no experience requirement
ExperienceScoreNeutral(total_years, required_experience) ==
    IF DOMAIN required_experience = {} THEN Q(1, 2)
    ELSE LET score == YearsScore(total_years,
                                 Get(required_experience, "years", 0))
             required_level == Get(required_experience, "level", "any")
         IN IF required_level = "any" THEN score
            ELSE QMul(QAdd(score,
                           calculate_level_match(
                               determine_experience_level(total_years),
                               required_level)),
                      Q(1, 2))

ExperienceScore(total_years, required_experience) ==
    IF DOMAIN required_experience = {} THEN Zero
    ELSE LET score == YearsScore(total_years,
                                 Get(required_experience, "years", 0))
             required_level == Get(required_experience, "level", "any")
         IN IF required_level = "any" THEN score
            ELSE QMul(QAdd(score,
                           calculate_level_match(
                               determine_experience_level(total_years),
                               required_level)),
                      Q(1, 2))

\* _calculate_experience_match
calculate_experience_match(resume_data, job_requirements) ==
    With(<<Get(resume_data, "experience", <<>>),
           extract_experience_requirements(job_requirements)>>,
         LAMBDA a :
            IF a[1] = <<>>
            THEN [score |-> Zero, experience_level |-> "none",
                  years_experience |-> 0]
            ELSE With(calculate_total_experience_years(a[1]),
                      LAMBDA total_years :
                        [score |-> ExperienceScore(total_years, a[2]),
                         experience_level |->
                            determine_experience_level(total_years),
                         years_experience |-> total_years,
                         positions |-> Len(a[1]),
                         required_years |-> Get(a[2], "years", 0)]))

\* _find_highest_degree: the highest level whose name the lowered degree
\* of some entry contains
find_highest_degree(education) ==
    LET held == {k \in 1..Len(degree_hierarchy) :
                    \E e \in 1..Len(education) :
                        Contains(Lower(Get(education[e], "degree", "")),
                                 degree_hierarchy[k].level)}
    IN IF held = {} THEN "none"
       ELSE degree_hierarchy[CHOOSE k \in held : \A j \in held : k >= j].level

\* the field test with an entry without a field of study matching nothing
check_field_match_named(education, required_field) ==
    \/ required_field = "any"
    \/ \E e \in 1..Len(education) :
        LET field == Lower(Get(education[e], "field_of_study", ""))
        IN /\ field # ""
           /\ Contains(field, required_field) \/ Contains(required_field, field)

\* _check_field_match
check_field_match(education, required_field) ==
    \/ required_field = "any"
    \/ \E e \in 1..Len(education) :
        LET field == Lower(Get(education[e], "field_of_study", ""))
        IN Contains(field, required_field) \/ Contains(required_field, field)

\* _calculate_education_match
calculate_education_match(resume_data, job_requirements) ==
    With(<<Get(resume_data, "education", <<>>),
           extract_education_requirements(job_requirements)>>,
         LAMBDA a :
            IF a[1] = <<>>
            THEN [score |-> Zero, highest_degree |-> "none",
                  field_match |-> FALSE]
            ELSE With(<<find_highest_degree(a[1]),
                        check_field_match(a[1], Get(a[2], "field", "any"))>>,
                      LAMBDA b :
                        IF DOMAIN a[2] = {}
                        THEN [score |-> Q(7, 10), highest_degree |-> b[1],
                              field_match |-> FALSE,
                              total_degrees |-> Len(a[1])]
                        ELSE [score |->
                                QMul(QAdd(calculate_degree_match(
                                            b[1], Get(a[2], "degree", "any")),
                                          IF b[2] THEN One ELSE Q(1, 2)),
                                     Q(1, 2)),
                              highest_degree |-> b[1],
                              field_match |-> b[2],
                              total_degrees |-> Len(a[1])]))

\* _prepare_text_for_comparison
prepare_text_for_comparison(resume_data) ==
    Join(" ",
         (IF "raw_text" \in DOMAIN resume_data
          THEN <<resume_data.raw_text>> ELSE <<>>)
         \o Each(Get(resume_data, "skills", <<>>),
                 LAMBDA skill : <<Get(skill, "name", "")>>)
         \o Each(Get(resume_data, "experience", <<>>),
                 LAMBDA exp : <<Get(exp, "position", ""),
                                Get(exp, "company", ""),
                                Get(exp, "description", "")>>)
         \o Each(Get(resume_data, "education", <<>>),
                 LAMBDA edu : <<Get(edu, "degree", ""),
                                Get(edu, "institution", ""),
                                Get(edu, "field_of_study", "")>>))

\* _prepare_job_text_for_comparison
prepare_job_text_for_comparison(job_requirements) ==
    Join(" ",
         <<Get(job_requirements, "description", ""),
           Get(job_requirements, "requirements", ""),
           Get(job_requirements, "title", "")>>
         \o Each(Get(job_requirements, "skills_required", <<>>),
                 LAMBDA skill : IF IsDict(skill)
                                THEN <<Get(skill, "name", "")>>
                                ELSE <<skill.str>>))

\* set(text.lower().split())
WordSet(text) ==
    With(Lower(text),
         LAMBDA t :
            {SubSeq(t, i, j) : <<i, j>> \in
                {p \in (1..Len(t)) \X (1..Len(t)) :
                    /\ p[1] <= p[2]
                    /\ \A k \in p[1]..p[2] : Solid(t, k)
                    /\ (p[1] = 1 \/ ~Solid(t, p[1] - 1))
                    /\ (p[2] = Len(t) \/ ~Solid(t, p[2] + 1))}})

\* _calculate_word_overlap
calculate_word_overlap(text1, text2) ==
    With(<<WordSet(text1), WordSet(text2)>>,
         LAMBDA w :
            IF w[1] = {} \/ w[2] = {} THEN Zero
            ELSE Q(Cardinality(w[1] \cap w[2]), Cardinality(w[1] \cup w[2])))

\* _calculate_text_similarity.  tfidf is what the vectorizer and
\* cosine_similarity of scikit-learn do with the two texts: they raise, or
\* they give the cosine of two vectors without negative entries.
calculate_text_similarity(resume_data, job_requirements, tfidf) ==
    With(<<prepare_text_for_comparison(resume_data),
           prepare_job_text_for_comparison(job_requirements)>>,
         LAMBDA t :
            IF t[1] = "" \/ t[2] = "" THEN Zero
            ELSE IF tfidf.raised THEN calculate_word_overlap(t[1], t[2])
            ELSE tfidf.value)

\* _identify_missing_requirements; it has no handler of its own
identify_missing_requirements(resume_data, job_requirements) ==
    With(<<SkillNames(Get(resume_data, "skills", <<>>)),
           extract_skills_from_requirements(job_requirements),
           extract_experience_requirements(job_requirements),
           extract_education_requirements(job_requirements)>>,
         LAMBDA a :
            IF a[1].raised THEN a[1]
            ELSE IF a[2].raised THEN a[2]
            ELSE Return(
                Each(a[2].value,
                     LAMBDA skill :
                        IF \E j \in 1..Len(a[1].value) :
                                Similar(skill, a[1].value[j])
                        THEN <<>> ELSE <<"Skill: " \o skill>>)
                \o (LET years == Get(a[3], "years", 0)
                        total_years == calculate_total_experience_years(
                                Get(resume_data, "experience", <<>>))
                    IN IF years > 0 /\ total_years < years
                       THEN <<"Experience: " \o ToString(years)
                              \o " years required, " \o ToString(total_years)
                              \o " years found">>
                       ELSE <<>>)
                \o (LET degree == Get(a[4], "degree", "")
                    IN IF /\ degree # ""
                          /\ Rank(degree_hierarchy, find_highest_degree(
                                    Get(resume_data, "education", <<>>)))
                                < Rank(degree_hierarchy, degree)
                       THEN <<"Education: " \o degree \o " degree required">>
                       ELSE <<>>)))

\* _identify_strengths; it has no handler of its own
identify_strengths(resume_data) ==
    LET skills == Get(resume_data, "skills", <<>>)
        experience == Get(resume_data, "experience", <<>>)
        education == Get(resume_data, "education", <<>>)
    IN IF SkillNames(skills).raised THEN SkillNames(skills)
       ELSE Return(
            (IF Len(skills) > 5
             THEN <<"Strong skill set with " \o ToString(Len(skills))
                    \o " skills">>
             ELSE <<>>)
         \o (IF Len(experience) > 2
             THEN <<"Extensive experience with " \o ToString(Len(experience))
                    \o " positions">>
             ELSE <<>>)
         \o (IF /\ education # <<>>
                /\ find_highest_degree(education) \in {"master", "phd"}
             THEN <<"Advanced education with "
                    \o find_highest_degree(education) \o " degree">>
             ELSE <<>>))

\* _generate_recommendations
generate_recommendations(overall_score, missing) ==
    <<IF QLe(Q(80, 1), overall_score)
      THEN "Strong match - Consider for interview"
      ELSE IF QLe(Q(60, 1), overall_score)
      THEN "Good match - Worth considering"
      ELSE IF QLe(Q(40, 1), overall_score)
      THEN "Moderate match - Review carefully"
      ELSE "Weak match - Consider other candidates">>
    \o (IF missing = <<>> THEN <<>>
        ELSE <<"Address missing requirements: "
               \o Join(", ", SubSeq(missing, 1,
                                    IF Len(missing) < 3 THEN Len(missing)
                                    ELSE 3))>>)

\* the weighted sum of calculate_match_score, times 100, capped at 100
OverallScore(skills, experience, education, text) ==
    QMin(Q(100, 1),
         QMul(QAdd(QAdd(QMul(skills, weights.skills),
                        QMul(experience, weights.experience)),
                   QAdd(QMul(education, weights.education),
                        QMul(text, weights.overall_text))),
              Q(100, 1)))

\* the dict of the except clause of calculate_match_score
MatchFailed(e) ==
    [overall_score |-> Zero, skills_match |-> Zero, experience_match |-> Zero,
     education_match |-> Zero, text_similarity |-> Zero, error |-> e]

\* calculate_match_score
calculate_match_score(resume_data, job_requirements, tfidf) ==
    With(<<calculate_skills_match(resume_data, job_requirements),
           calculate_experience_match(resume_data, job_requirements),
           calculate_education_match(resume_data, job_requirements),
           calculate_text_similarity(resume_data, job_requirements, tfidf),
           identify_missing_requirements(resume_data, job_requirements),
           identify_strengths(resume_data)>>,
         LAMBDA s :
            IF s[5].raised THEN MatchFailed(s[5].exc)
            ELSE IF s[6].raised THEN MatchFailed(s[6].exc)
            ELSE With(OverallScore(s[1].score, s[2].score, s[3].score, s[4]),
                      LAMBDA overall_score :
                        [overall_score |-> overall_score,
                         skills_match |-> s[1].score,
                         experience_match |-> s[2].score,
                         education_match |-> s[3].score,
                         text_similarity |-> s[4],
                         detailed_analysis |->
                            [skills |-> s[1], experience |-> s[2],
                             education |-> s[3]],
                         missing_requirements |-> s[5].value,
                         strengths |-> s[6].value,
                         recommendations |->
                            generate_recommendations(overall_score,
                                                     s[5].value)]))

\* ResumeProcessor.match_resume_to_job: calculate_match_score returns a
\* dict on every path, so the handler of match_resume_to_job never runs
match_resume_to_job(resume_data, job_requirements, tfidf) ==
    [success |-> TRUE,
     match_result |-> calculate_match_score(resume_data, job_requirements,
                                            tfidf)]

\* the resume data process_and_match prepares for the matcher
ResumeData(raw_text, entities) ==
    [raw_text |-> raw_text, skills |-> entities.skills,
     experience |-> entities.experience, education |-> entities.education,
     contact_info |-> entities.contact_info]

----------------------------------------------------------------------------
(* Inputs: uploaded files, and the requests made with them *)

TextA == "Python work experience MBA 2018"
TextB == "Work experience\nSenior Developer 2019-2021 Django"
TextNoYear == "Python work experience MBA"
TextLow == "hello world"

Pdf(name, size, readable, opens, pages) ==
    [name |-> name, size |-> size, content_type |-> "application/pdf",
     readable |-> readable, pdf |-> [opens |-> opens, pages |-> pages]]

Page(text) == [ok |-> TRUE, text |-> text]
BadPage == [ok |-> FALSE, text |-> ""]

FileA == Pdf("cv.pdf", 2048, TRUE, TRUE, <<Page(TextA)>>)
FileB == Pdf("b.pdf", 4096, TRUE, TRUE, <<BadPage, Page(TextB), Page("")>>)
FileNoYear == Pdf("ny.pdf", 2048, TRUE, TRUE, <<Page(TextNoYear)>>)
FileLow == Pdf("low.pdf", 512, TRUE, TRUE, <<Page(TextLow)>>)
FileUnreadable == Pdf("io.pdf", 2048, FALSE, TRUE, <<Page(TextA)>>)
FileCorrupt == Pdf("bad.pdf", 10, TRUE, FALSE, <<>>)
FileTxt == Pdf("cv.txt", 2048, TRUE, TRUE, <<Page(TextA)>>)
FileBig == Pdf("big.pdf", 10 * 1024 * 1024 + 1, TRUE, TRUE, <<Page(TextB)>>)
FileEmpty == Pdf("empty.pdf", 0, TRUE, FALSE, <<>>)

Files == {FileA, FileB, FileNoYear, FileLow, FileUnreadable, FileCorrupt,
          FileTxt, FileBig, FileEmpty}

\* an entry of skills_required that is a plain string
St(s) == [str |-> s]

\* the job requirements of a request, the dict the views build from a Job
\* row, and one whose skills_required has a dict without a name (a JSON
\* body or a direct caller can give it)
JobGood ==
    [title |-> "Engineer", description |-> "Backend role, 1 year experience",
     requirements |-> "Django", skills_required |-> <<[name |-> "Python"]>>]
JobBad ==
    [description |-> "lead", skills_required |-> <<[title |-> "x"]>>]

\* job requirements with what the TF-IDF library does for them
MatchInputs ==
    {[job_requirements |-> JobGood, tfidf |-> Return(Q(1, 2))],
     [job_requirements |-> JobBad, tfidf |-> Raise("ValueError")]}

NoJob == [job_requirements |-> <<>>, tfidf |-> Raise("ValueError")]
NoMatch == [success |-> FALSE]
NoFile == [name |-> ""]

AppIds == 0..(NumApplications + 1)    \* None, the rows, an id of no row
JobIds == 0..(NumJobs + 1)

\* calls of the two ResumeProcessor entry points
DirectRequests ==
    {[entry |-> "direct", op |-> "process_resume", file |-> f,
      application_id |-> a, job_id |-> NoId,
      job_requirements |-> NoJob.job_requirements, tfidf |-> NoJob.tfidf] :
        f \in Files, a \in AppIds}
    \cup
    {[entry |-> "direct", op |-> "process_and_match", file |-> f,
      application_id |-> a, job_id |-> j,
      job_requirements |-> m.job_requirements, tfidf |-> m.tfidf] :
        f \in {FileA, FileB, FileNoYear, FileLow, FileUnreadable},
        a \in AppIds, j \in JobIds, m \in MatchInputs}

\* POSTs to process_resume_api and process_and_match_api.  has_file: the
\* request carries resume_file; job_id: the form's job_id (0: none given);
\* has_job: the JSON body gives job requirements, without a job_id;
\* may_access: the authenticated user owns the application or its job.
ApiRequest(op, f, h, a, j, hj, au, ma, m) ==
    [entry |-> "api", op |-> op, file |-> f, has_file |-> h,
     application_id |-> a, job_id |-> j, has_job |-> hj,
     authenticated |-> au, may_access |-> ma,
     job_requirements |-> m.job_requirements, tfidf |-> m.tfidf]

ApiRequests ==
    {ApiRequest("process_resume", f, TRUE, a, NoId, FALSE, FALSE, FALSE, NoJob) :
        f \in Files, a \in {NoId, 1}}
    \cup
    {ApiRequest("process_resume", FileA, h, a, NoId, FALSE, TRUE, ma, NoJob) :
        h \in BOOLEAN, a \in AppIds, ma \in BOOLEAN}
    \cup
    {ApiRequest("process_and_match", f, TRUE, 1, 1, FALSE, FALSE, FALSE, m) :
        f \in Files, m \in MatchInputs}
    \cup
    {r \in {ApiRequest("process_and_match", f, h, a, j, hj, au, ma, m) :
                f \in {FileA, FileTxt}, h \in BOOLEAN, a \in AppIds,
                j \in JobIds, hj \in BOOLEAN, au \in BOOLEAN,
                ma \in BOOLEAN, m \in MatchInputs} :
        \* only a JSON body gives requirements that are not a Job row's
        (r.job_id # NoId \/ ~r.has_job) => r.job_requirements = JobGood}

NoReq == [entry |-> "none"]
NoRet == [status |-> -1]
NoResult == [success |-> FALSE]
NoFn == [name |-> "none"]
NoRun == [stored |-> FALSE]

MaxCalls == 2    \* invocations that reach the extractor

----------------------------------------------------------------------------
(* Storage runs of _store_analysis_results for one application that are     *)
(* open at the same time.  The database is PostgreSQL (jobs/views.py uses   *)
(* django.contrib.postgres) at its default isolation level, READ           *)
(* COMMITTED: a statement sees the rows committed before it began and the   *)
(* changes of its own transaction; a row a transaction updated or deleted  *)
(* is locked until the transaction ends, and so is a unique key it          *)
(* inserted: another transaction's statement on that row or key waits.     *)
(* Run 0 is an earlier run that has ended before runs 1 and 2 begin; runs  *)
(* 1 and 2 interleave statement by statement.  A row carries the run that  *)
(* inserted it.                                                            *)

Invocations == 0..2
Concurrent == {1, 2}
StoreApplication == CHOOSE a \in Applications : TRUE
StoreTexts == {TextA, TextB, TextNoYear}
ChildTables == <<"skills", "experiences", "education">>

NoRows == [analyses |-> <<>>, skills |-> <<>>, experiences |-> <<>>,
           education |-> <<>>]

\* a run that has not begun: no statement made, nothing locked
IdleTxn ==
    [pc |-> "idle", text |-> "", entities |-> empty_entities,
     analysis |-> NoId, table |-> 1, saved |-> FALSE, deleted |-> {},
     inserted |-> NoRows, exc |-> Null]

NoTxn == [i \in Invocations |-> IdleTxn]

Open(t) == t.pc \notin {"idle", "done"}
Others(i) == {j \in Invocations : j # i /\ Open(txn[j])}

\* the analysis row a run writes: defaults of get_or_create, and the
\* fields save() sets
AnalysisFields(t) ==
    [raw_text |-> Prefix(t.text, MaxRawText),
     confidence_score |-> t.entities.overall_confidence]

\* the tables as a statement of transaction t sees them over the committed
\* tables d, which is also what its commit makes of them
Seen(d, t) ==
    [d EXCEPT
        !.analyses =
            [k \in 1..Len(d.analyses) |->
                IF t.saved /\ d.analyses[k].id = t.analysis
                THEN [d.analyses[k] EXCEPT
                        !.raw_text = AnalysisFields(t).raw_text,
                        !.confidence_score = AnalysisFields(t).confidence_score]
                ELSE d.analyses[k]] \o t.inserted.analyses,
        !.skills = Filter(@, LAMBDA r : r \notin t.deleted) \o t.inserted.skills,
        !.experiences =
            Filter(@, LAMBDA r : r \notin t.deleted) \o t.inserted.experiences,
        !.education =
            Filter(@, LAMBDA r : r \notin t.deleted) \o t.inserted.education]

AnalysesOf(d, application_id) ==
    {d.analyses[k].id : k \in {j \in 1..Len(d.analyses) :
                                d.analyses[j].application = application_id}}

\* the rows the three insert loops make, each with the run that made it
ChildRows(i, table, t) ==
    LET e == t.entities
        Made(k) == [run |-> i, k |-> k]
    IN CASE table = "skills" ->
                [k \in 1..Len(e.skills) |->
                    Made(k) @@ SkillRow(t.analysis, e.skills[k])]
         [] table = "experiences" ->
                [k \in 1..Len(e.experience) |->
                    Made(k) @@ ExperienceRow(t.analysis, e.experience[k])]
         [] table = "education" ->
                [k \in 1..Len(e.education) |->
                    Made(k) @@ EducationRow(t.analysis, e.education[k])]

\* unique_together = ['analysis', 'skill_name']
SameSkill(a, b) == a.analysis = b.analysis /\ a.skill_name = b.skill_name

\* a run begins: process_resume has extracted the entities of its document
\* and enters _store_analysis_results
BeginStore(i) ==
    /\ txn[i].pc = "idle"
    /\ IF i = 0 THEN \A j \in Concurrent : txn[j].pc = "idle"
       ELSE txn[0].pc \in {"idle", "done"}
    /\ \E text \in StoreTexts :
        txn' = [txn EXCEPT ![i] =
                    [IdleTxn EXCEPT !.pc = "get", !.text = text,
                                    !.entities = extract_entities(text, NoNlp)]]
    /\ UNCHANGED <<db, tmp, created, pc, req, result, ret, log, pre, fn, latest,
                   match>>

\* get_or_create: the lookup of the application's analysis
GetAnalysis(i) ==
    /\ txn[i].pc = "get"
    /\ LET have == AnalysesOf(db, StoreApplication)
       IN txn' = [txn EXCEPT ![i] =
                    IF have = {} THEN [@ EXCEPT !.pc = "create"]
                    ELSE [@ EXCEPT !.pc = "save",
                                   !.analysis = CHOOSE id \in have : TRUE]]
    /\ UNCHANGED <<db, tmp, created, pc, req, result, ret, log, pre, fn, latest,
                   match>>

\* get_or_create: the insert after a lookup that found nothing.  It waits
\* while another open transaction has inserted a row for the application;
\* if such a row is committed by now the insert raises IntegrityError,
\* which get_or_create answers with a second lookup.
CreateAnalysis(i) ==
    /\ txn[i].pc = "create"
    /\ \A j \in Others(i) : txn[j].inserted.analyses = <<>>
    /\ LET have == AnalysesOf(db, StoreApplication)
           row == [id |-> i + 1, application |-> StoreApplication]
                    @@ AnalysisFields(txn[i])
       IN txn' = [txn EXCEPT ![i] =
                    IF have = {}
                    THEN [@ EXCEPT !.pc = "delete", !.analysis = row.id,
                                   !.inserted.analyses = <<row>>]
                    ELSE [@ EXCEPT !.pc = "save",
                                   !.analysis = CHOOSE id \in have : TRUE]]
    /\ UNCHANGED <<db, tmp, created, pc, req, result, ret, log, pre, fn, latest,
                   match>>

\* analysis.save() of a row that existed: the update waits while another
\* open transaction has updated the row
SaveAnalysis(i) ==
    /\ txn[i].pc = "save"
    /\ \A j \in Others(i) : ~(txn[j].saved /\ txn[j].analysis = txn[i].analysis)
    /\ txn' = [txn EXCEPT ![i] = [@ EXCEPT !.pc = "delete", !.saved = TRUE]]
    /\ UNCHANGED <<db, tmp, created, pc, req, result, ret, log, pre, fn, latest,
                   match>>

\* <Child>.objects.filter(analysis=analysis).delete(): the committed rows of
\* the analysis, waiting while another open transaction has deleted one
DeleteChildRows(i) ==
    /\ txn[i].pc = "delete"
    /\ LET table == ChildTables[txn[i].table]
           rows == RowsOf(db[table], txn[i].analysis)
           mine == {rows[k] : k \in 1..Len(rows)}
       IN /\ \A j \in Others(i) : mine \cap txn[j].deleted = {}
          /\ txn' = [txn EXCEPT ![i] =
                        [@ EXCEPT !.pc = "insert",
                                  !.deleted = @ \cup mine,
                                  !.inserted[table] =
                                        DeleteChildren(@, txn[i].analysis)]]
    /\ UNCHANGED <<db, tmp, created, pc, req, result, ret, log, pre, fn, latest,
                   match>>

\* the loop of <Child>.objects.create calls of one collection.  A skill row
\* waits while another open transaction has inserted its key, and raises
\* IntegrityError when a row the statement sees has it; an education row
\* raises ValueError for a year that is no number.
InsertChildRows(i) ==
    /\ txn[i].pc = "insert"
    /\ LET t == txn[i]
           table == ChildTables[t.table]
           rows == IF table = "education" /\ \E k \in 1..Len(t.entities.education) :
                                        ~EducationAccepted(t.entities.education[k])
                   THEN <<>>
                   ELSE ChildRows(i, table, t)
           seen == Seen(db, t)[table]
           clash == /\ table = "skills"
                    /\ \/ \E a \in 1..Len(rows), b \in 1..Len(seen) :
                            SameSkill(rows[a], seen[b])
                       \/ \E a, b \in 1..Len(rows) :
                            a # b /\ SameSkill(rows[a], rows[b])
       IN /\ table = "skills" =>
                \A j \in Others(i) :
                    \A a \in 1..Len(rows), b \in 1..Len(txn[j].inserted.skills) :
                        ~SameSkill(rows[a], txn[j].inserted.skills[b])
          /\ txn' = [txn EXCEPT ![i] =
                IF table = "education" /\ rows = <<>> /\ t.entities.education # <<>>
                THEN [@ EXCEPT !.pc = "rollback", !.exc = "ValueError"]
                ELSE IF clash
                THEN [@ EXCEPT !.pc = "rollback", !.exc = "IntegrityError"]
                ELSE [@ EXCEPT !.inserted[table] = @ \o rows,
                               !.pc = IF t.table < Len(ChildTables)
                                      THEN "delete" ELSE "commit",
                               !.table = IF t.table < Len(ChildTables)
                                         THEN @ + 1 ELSE @]]
    /\ UNCHANGED <<db, tmp, created, pc, req, result, ret, log, pre, fn, latest,
                   match>>

\* the method returns: @transaction.atomic commits
CommitStore(i) ==
    /\ txn[i].pc = "commit"
    /\ db' = Seen(db, txn[i])
    /\ txn' = [txn EXCEPT ![i] = [@ EXCEPT !.pc = "done"]]
    /\ UNCHANGED <<tmp, created, pc, req, result, ret, log, pre, fn, latest,
                   match>>

\* the method raises: @transaction.atomic rolls the statements back
RollbackStore(i) ==
    /\ txn[i].pc = "rollback"
    /\ txn' = [txn EXCEPT ![i] =
                [@ EXCEPT !.pc = "done", !.saved = FALSE, !.deleted = {},
                          !.inserted = NoRows]]
    /\ UNCHANGED <<db, tmp, created, pc, req, result, ret, log, pre, fn, latest,
                   match>>

InitStore ==
    /\ db = EmptyDb
    /\ tmp = {}
    /\ created = 0
    /\ pc = "store"
    /\ req = NoReq
    /\ result = NoResult
    /\ ret = NoRet
    /\ log = <<>>
    /\ pre = EmptyDb
    /\ fn = NoFn
    /\ latest = [a \in Applications |-> NoRun]
    /\ match = NoMatch
    /\ txn = NoTxn

NextStore ==
    \E i \in Invocations :
        \/ BeginStore(i)
        \/ GetAnalysis(i)
        \/ CreateAnalysis(i)
        \/ SaveAnalysis(i)
        \/ DeleteChildRows(i)
        \/ InsertChildRows(i)
        \/ CommitStore(i)
        \/ RollbackStore(i)

SpecStore == InitStore /\ [][NextStore]_vars

----------------------------------------------------------------------------
(* PDFExtractor.extract_from_upload: the temporary file is the id-th one    *)
(* created; files is the set of temporary files on disk.                   *)

TmpPath(id, uploaded_file) ==
    [name |-> "tmp.pdf", exists |-> TRUE, pdf |-> uploaded_file.pdf]

\* os.unlink(tmp_file_path)
Unlink(files, id) == files \ {id}

extract_from_upload(uploaded_file, files, id) ==
    IF ~uploaded_file.readable
    THEN \* chunks() raises inside the with block: straight to the handler
         [value |-> UploadFailure("error reading upload"),
          files |-> files \cup {id}, ran |-> <<"buffer">>]
    ELSE LET o == extract_text(TmpPath(id, uploaded_file))
         IN IF o.raised
            THEN [value |-> UploadFailure(o.exc), files |-> files \cup {id},
                  ran |-> <<"buffer", "extract_text">>]
            ELSE [value |-> o.value, files |-> Unlink(files \cup {id}, id),
                  ran |-> <<"buffer", "extract_text", "unlink">>]

----------------------------------------------------------------------------
(* The views, and ResumeProcessor.process_resume / process_and_match, one  *)
(* action per call the orchestrator makes.                                 *)

\* the dict with error set to the empty string instead of None
InitResultBlankError ==
    [success |-> FALSE, error |-> "", extraction |-> <<>>,
     entities |-> <<>>, validation |-> <<>>, analysis_id |-> NoId]

InitResult ==
    [success |-> FALSE, error |-> Null, extraction |-> <<>>,
     entities |-> <<>>, validation |-> <<>>, analysis_id |-> NoId]

\* what the caller of the entry point gets: the processor's return value,
\* and for a view the HTTP status it answers with
Respond(r, value) ==
    [value |-> value,
     status |-> IF r.entry = "direct" THEN 0
                ELSE IF value.success THEN 200 ELSE 500]

\* process_resume has returned res: process_resume's caller gets it, and
\* process_and_match goes on to the matcher only when it succeeded
AfterProcessResume(res) ==
    IF req.op = "process_and_match" /\ res.success
    THEN /\ pc' = "match"
         /\ ret' = ret
    ELSE /\ pc' = "done"
         /\ ret' = Respond(req, res)

Call(r) ==
    /\ req' = r
    /\ result' = InitResult
    /\ ret' = NoRet
    /\ log' = <<>>
    /\ pre' = db
    /\ pc' = "extract"
    /\ match' = NoMatch
    /\ UNCHANGED <<db, tmp, created, fn, latest, txn>>

\* a direct call of process_resume or process_and_match
StartDirect ==
    /\ pc = "idle"
    /\ created < MaxCalls
    /\ \E r \in DirectRequests : Call(r)

\* The checks a view makes before it calls the processor.  Each gives the
\* reply it returns with, or Pass.
Pass == [status |-> 0]
Reject(status, error) ==
    [status |-> status, value |-> [success |-> FALSE, error |-> error]]

\* 'resume_file' not in request.FILES
FilePresent(r) ==
    IF r.has_file THEN Pass ELSE Reject(400, "No resume file provided")

\* processor.validate_file(uploaded_file)
FileRules(r) ==
    LET v == validate_file(r.file)
    IN IF v.is_valid THEN Pass
       ELSE [status |-> 400,
             value |-> [success |-> FALSE, error |-> "File validation failed",
                        issues |-> v.issues]]

\* the application checks; get_object_or_404 raises Http404, which the
\* view's handler turns into the 500 reply
ApplicationAccess(r) ==
    IF r.application_id = NoId \/ ~r.authenticated THEN Pass
    ELSE IF r.application_id \notin Applications
    THEN Reject(500, "Internal server error")
    ELSE IF ~r.may_access THEN Reject(403, "Access denied to this application")
    ELSE Pass

\* the job requirements of process_and_match_api
JobRequirements(r) ==
    IF r.job_id # NoId
    THEN IF r.job_id \in Jobs THEN Pass ELSE Reject(500, "Internal server error")
    ELSE IF r.has_job THEN Pass
    ELSE Reject(400, "No job requirements provided")

\* the views without their validate_file call
ChecksNoFileRules(r) ==
    IF r.op = "process_resume"
    THEN <<FilePresent(r), ApplicationAccess(r)>>
    ELSE <<FilePresent(r), JobRequirements(r), ApplicationAccess(r)>>

\* in the order each view makes them
Checks(r) ==
    IF r.op = "process_resume"
    THEN <<FilePresent(r), FileRules(r), ApplicationAccess(r)>>
    ELSE <<FilePresent(r), JobRequirements(r), ApplicationAccess(r), FileRules(r)>>

\* the reply of the first check that fails, or Pass
EarlyReply(r) ==
    LET cs == Checks(r)
        failed == {k \in 1..Len(cs) : cs[k] # Pass}
    IN IF failed = {} THEN Pass
       ELSE cs[CHOOSE k \in failed : \A j \in failed : k <= j]

\* process_resume_api / process_and_match_api up to the call of the
\* processor: a failed check returns without calling it
StartApi ==
    /\ pc = "idle"
    /\ created < MaxCalls
    /\ \E r \in ApiRequests :
        IF EarlyReply(r) # Pass
        THEN /\ req' = r
             /\ result' = InitResult
             /\ log' = <<>>
             /\ pre' = db
             /\ pc' = "done"
             /\ ret' = EarlyReply(r)
             /\ UNCHANGED <<db, tmp, created, fn, latest, match, txn>>
        ELSE Call(r)

\* process_resume step 1
ExtractFromUpload ==
    /\ pc = "extract"
    /\ LET x == extract_from_upload(req.file, tmp, created + 1)
       IN /\ created' = created + 1
          /\ tmp' = x.files
          /\ log' = log \o x.ran
          /\ IF ~x.value.success
             THEN /\ result' = [result EXCEPT
                                  !.extraction = x.value,
                                  !.error = "PDF extraction failed: "
                                            \o x.value.error]
                  /\ AfterProcessResume(result')
             ELSE /\ result' = [result EXCEPT !.extraction = x.value]
                  /\ pc' = "validate"
                  /\ ret' = ret
    /\ UNCHANGED <<db, req, pre, fn, latest, match, txn>>

\* step 2 without the early return on an invalid verdict
ValidateExtractionNoGate ==
    /\ pc = "validate"
    /\ log' = Append(log, "validate")
    /\ result' = [result EXCEPT
                    !.validation = validate_extraction(result.extraction)]
    /\ pc' = "entities"
    /\ UNCHANGED <<db, tmp, created, req, ret, pre, fn, latest, match, txn>>

\* process_resume step 2
ValidateExtraction ==
    /\ pc = "validate"
    /\ LET v == validate_extraction(result.extraction)
       IN /\ log' = Append(log, "validate")
          /\ IF ~v.is_valid
             THEN /\ result' = [result EXCEPT
                                  !.validation = v,
                                  !.error = "Extraction quality too low: "
                                            \o ListRepr(v.issues)]
                  /\ AfterProcessResume(result')
             ELSE /\ result' = [result EXCEPT !.validation = v]
                  /\ pc' = "entities"
                  /\ ret' = ret
    /\ UNCHANGED <<db, tmp, created, req, pre, fn, latest, match, txn>>

\* process_resume step 3, and the return when no application id was given
ExtractEntities ==
    /\ pc = "entities"
    /\ log' = Append(log, "entities")
    /\ IF req.application_id # NoId
       THEN /\ result' = [result EXCEPT !.entities =
                            extract_entities(result.extraction.raw_text, NoNlp)]
            /\ pc' = "store"
            /\ ret' = ret
       ELSE /\ result' = [result EXCEPT
                            !.entities =
                                extract_entities(result.extraction.raw_text, NoNlp),
                            !.success = TRUE]
            /\ AfterProcessResume(result')
    /\ UNCHANGED <<db, tmp, created, req, pre, fn, latest, match, txn>>

\* step 4 with success set before the storage call instead of after it
StoreAnalysisSuccessFirst ==
    /\ pc = "store"
    /\ LET o == store_analysis_results(db, req.application_id,
                                       result.extraction, result.entities)
       IN /\ db' = o.db
          /\ log' = Append(log, "store")
          /\ result' = IF o.raised
                        THEN [result EXCEPT !.error = o.exc, !.success = TRUE]
                        ELSE [result EXCEPT !.analysis_id = o.id,
                                            !.success = TRUE]
          /\ latest' = IF o.raised THEN latest
                        ELSE [latest EXCEPT ![req.application_id] =
                                [stored |-> TRUE,
                                 extraction |-> result.extraction,
                                 entities |-> result.entities]]
          /\ AfterProcessResume(result')
    /\ UNCHANGED <<tmp, created, req, pre, fn, match, txn>>

\* process_resume step 4: an exception of the storage method is caught by
\* process_resume's handler, which returns the result with the error
StoreAnalysis ==
    /\ pc = "store"
    /\ LET o == store_analysis_results(db, req.application_id,
                                       result.extraction, result.entities)
       IN /\ db' = o.db
          /\ log' = Append(log, "store")
          /\ result' = IF o.raised THEN [result EXCEPT !.error = o.exc]
                        ELSE [result EXCEPT !.analysis_id = o.id,
                                            !.success = TRUE]
          /\ latest' = IF o.raised THEN latest
                        ELSE [latest EXCEPT ![req.application_id] =
                                [stored |-> TRUE,
                                 extraction |-> result.extraction,
                                 entities |-> result.entities]]
          /\ AfterProcessResume(result')
    /\ UNCHANGED <<tmp, created, req, pre, fn, match, txn>>

\* the dict process_and_match builds after a successful match
Combined(res, match_result) ==
    [success |-> TRUE, processing |-> res, matching |-> match_result,
     analysis_id |-> res.analysis_id]

\* process_and_match: match_resume_to_job, the return when it failed, and
\* the return when there is nothing to store
MatchResumeToJob ==
    /\ pc = "match"
    /\ log' = Append(log, "match")
    /\ match' = match_resume_to_job(
                    ResumeData(result.extraction.raw_text, result.entities),
                    req.job_requirements, req.tfidf)
    /\ IF ~match'.success
       THEN /\ pc' = "done"
            /\ ret' = Respond(req, [result EXCEPT !.error = match'.error])
       ELSE IF req.application_id # NoId /\ result.analysis_id # NoId
       THEN /\ pc' = "store_match"
            /\ ret' = ret
       ELSE /\ pc' = "done"
            /\ ret' = Respond(req, Combined(result, match'.match_result))
    /\ UNCHANGED <<db, tmp, created, req, result, pre, fn, latest, txn>>

\* process_and_match: _store_match_score; its exception is caught by
\* process_and_match's handler
StoreMatchScore ==
    /\ pc = "store_match"
    /\ LET o == store_match_score(db, result.analysis_id, req.job_id,
                                  match.match_result)
       IN /\ db' = o.db
          /\ ret' = Respond(req, IF o.raised
                                 THEN [success |-> FALSE, error |-> o.exc]
                                 ELSE Combined(result, match.match_result))
    /\ log' = Append(log, "store_match")
    /\ pc' = "done"
    /\ UNCHANGED <<tmp, created, req, result, pre, fn, latest, match, txn>>

\* the caller has its answer; the invocation's locals are gone
Finish ==
    /\ pc = "done"
    /\ pc' = "idle"
    /\ req' = NoReq
    /\ result' = NoResult
    /\ ret' = NoRet
    /\ log' = <<>>
    /\ pre' = db
    /\ match' = NoMatch
    /\ UNCHANGED <<db, tmp, created, fn, latest, txn>>

Init ==
    /\ db = EmptyDb
    /\ tmp = {}
    /\ created = 0
    /\ pc = "idle"
    /\ req = NoReq
    /\ result = NoResult
    /\ ret = NoRet
    /\ log = <<>>
    /\ pre = EmptyDb
    /\ fn = NoFn
    /\ latest = [a \in Applications |-> NoRun]
    /\ match = NoMatch
    /\ txn = NoTxn

Next ==
    \/ StartDirect
    \/ StartApi
    \/ ExtractFromUpload
    \/ ValidateExtraction
    \/ ExtractEntities
    \/ StoreAnalysis
    \/ MatchResumeToJob
    \/ StoreMatchScore
    \/ Finish

Spec == Init /\ [][Next]_vars

----------------------------------------------------------------------------
(* Direct calls of the pure methods: validate_file, extract_text,           *)
(* validate_extraction, extract_entities, calculate_match_score and        *)
(* match_resume_to_job, each applied to an argument drawn from a set.       *)

FileNames ==
    {"cv.pdf", "CV.PDF", "a.Pdf", "resume.txt", "cv.pdf.exe", "pdf", ".pdf",
     "cv.docx", ""}
FileSizes == {0, 1, 10, 2048, MaxFileSize - 1, MaxFileSize, MaxFileSize + 1}
ContentTypes == {"application/pdf", "text/plain"}

Uploads ==
    {[name |-> n, size |-> z, content_type |-> c] :
        n \in FileNames, z \in FileSizes, c \in ContentTypes}

PathNames == {"cv.pdf", "CV.PDF", "a.b.pdf", "resume.txt", "cv", "cv.docx", ".pdf"}
Documents ==
    {FileA.pdf, FileB.pdf, FileCorrupt.pdf, [opens |-> TRUE, pages |-> <<>>]}

\* a path on disk with the document it holds, or a path of no file
Paths ==
    {[name |-> n, exists |-> TRUE, pdf |-> d] : n \in PathNames, d \in Documents}
    \cup {[name |-> n, exists |-> FALSE, pdf |-> FileCorrupt.pdf] : n \in PathNames}

Text20Words == "work job a b c d e f g h i j k l m n o p q r"
Text20Plain == "a b c d e f g h i j k l m n o p q r s t"
TextGood == "work experience skills " \o Text20Plain
TextNoKeywords == "lorem ipsum dolor sit amet consectetur adipiscing elit sed do"
TextNoKeywords20 ==
    TextNoKeywords \o " eiusmod tempor incididunt ut labore et dolore magna"
        \o " aliqua ut"
Text49 == "work experience xxxxxxxxxxxxxxxxxxxxxxxxxxxxxxxxx"
Text50 == Text49 \o "x"
TextPadded == "   work experience                                  \n"

ValidationTexts ==
    {"", TextLow, "work experience", TextA, TextB, Text20Words, Text20Plain,
     TextGood, TextNoKeywords, TextNoKeywords20, Text49, Text50, TextPadded}

MaxPages == 2

\* documents as pdfplumber opens them: every page gives text or raises
ParsedDocuments ==
    {[opens |-> TRUE, pages |-> ps] :
        ps \in {<<>>, <<BadPage>>, <<BadPage, BadPage>>, <<Page(TextGood)>>,
                <<BadPage, Page(TextGood)>>, <<Page(TextLow)>>}}

\* what extract_text returns for them
Extracted ==
    {extract_text([name |-> "cv.pdf", exists |-> TRUE, pdf |-> d]).value :
        d \in ParsedDocuments}

Extractions ==
    {[raw_text |-> t, pages |-> <<>>, metadata |-> [pages |-> n],
      success |-> TRUE, error |-> Null] : t \in ValidationTexts, n \in 0..MaxPages}
    \cup Extracted
    \cup {UploadFailure("cannot open pdf")}

\* texts given to extract_entities, with what calling the spaCy model on
\* them can do
TextCasings == "Python python PYTHON"
TextSkilled == "skilled developer of Python work experience"
ScenarioA ==
    "Python developer, 5 years experience, Senior Software Engineer at "
        \o "Tech Corp (2018-2023), Bachelor of Science in Computer Science, "
        \o "University of Technology, 2018"

TextFull == TextB \o " MBA"

EntityTexts ==
    {"", "   ", TextA, TextB, TextLow, TextCasings, TextSkilled, TextFull}

NlpRaises == [loaded |-> TRUE, raises |-> TRUE]
NlpGives(chunks) == [loaded |-> TRUE, raises |-> FALSE, chunks |-> chunks]

Nlps(text) ==
    {NoNlp, NlpRaises, NlpGives(<<>>)}
    \cup (IF text = TextSkilled
          THEN {NlpGives(<<[text |-> "skilled developer", start_char |-> 0,
                            end_char |-> 17],
                           [text |-> "Python work experience",
                            start_char |-> 21, end_char |-> 43]>>)}
          ELSE {})

\* resume data given to the matcher: what the extractor gives for a text,
\* and dicts written by a caller
ResumeNone == [skills |-> <<>>]
ResumeHand ==
    [skills |-> <<[name |-> "Python"], [name |-> "React"], [name |-> ""]>>,
     experience |-> <<[position |-> "Dev", duration |-> "5 years"],
                      [duration |-> "1 year 2 months"]>>,
     education |-> <<[degree |-> "Master of Arts",
                      field_of_study |-> "Economics"]>>]
ResumeBad == [skills |-> <<[title |-> "x"]>>]
ResumeBlankField ==
    [skills |-> <<>>,
     education |-> <<[degree |-> "Bachelor of Arts", field_of_study |-> ""]>>]

Resumes ==
    {ResumeNone, ResumeHand, ResumeBad, ResumeBlankField,
     ResumeData(TextA, extract_entities(TextA, NoNlp)),
     ResumeData(TextB, extract_entities(TextB, NoNlp))}

JobA ==
    [skills_required |-> <<St("Python")>>,
     description |-> "Backend role, 3 years of experience",
     requirements |-> "Bachelor degree"]
JobADict == [JobA EXCEPT !.skills_required = <<[name |-> "Python"]>>]
JobSenior ==
    [skills_required |-> <<[name |-> "Python"]>>, title |-> "Engineer",
     description |-> "Senior role. 3+ years of experience with Django",
     requirements |-> "B.S. in Computer Science"]
JobEmpty == [skills_required |-> <<>>]
JobMined == [skills_required |-> <<>>, description |-> "Python developer"]
JobFuzzy == [skills_required |-> <<St("go"), St("reactjs")>>]

JobLead ==
    [description |-> "Lead engineer, 8 years of experience",
     requirements |-> "Master degree in Economics"]

JobDicts ==
    {JobA, JobSenior, JobLead, JobEmpty, JobMined, JobFuzzy, JobGood, JobBad,
     <<>>}

\* what TfidfVectorizer.fit_transform and cosine_similarity do: raise, or
\* give a cosine of two vectors without negative entries
TfidfOutcomes ==
    {Raise("ValueError"), Return(Zero), Return(Q(1, 2)), Return(One)}

MatchCalls(name, resumes, jobs) ==
    {[name |-> name,
      arg |-> [resume_data |-> r, job_requirements |-> j, tfidf |-> t],
      done |-> FALSE, out |-> <<>>] :
        r \in resumes, j \in jobs, t \in TfidfOutcomes}

FnCall(name, arg) == [name |-> name, arg |-> arg, done |-> FALSE, out |-> <<>>]

FnCalls ==
    {FnCall("validate_file", u) : u \in Uploads}
    \cup {FnCall("extract_text", p) : p \in Paths}
    \cup {FnCall("validate_extraction", x) : x \in Extractions}
    \cup UNION {{FnCall("extract_entities", [text |-> t, nlp |-> n]) :
                    n \in Nlps(t)} : t \in EntityTexts}
    \cup MatchCalls("calculate_match_score", Resumes, JobDicts)
    \cup MatchCalls("match_resume_to_job", {ResumeNone, ResumeHand},
                    {JobGood, JobBad})
    \cup {FnCall("extract_and_match",
                 [text |-> ScenarioA, job_requirements |-> j, tfidf |-> t]) :
                j \in {JobA, JobADict}, t \in TfidfOutcomes}

InitFn ==
    /\ db = EmptyDb
    /\ tmp = {}
    /\ created = 0
    /\ pc = "fn"
    /\ req = NoReq
    /\ result = NoResult
    /\ ret = NoRet
    /\ log = <<>>
    /\ pre = EmptyDb
    /\ fn \in FnCalls
    /\ latest = [a \in Applications |-> NoRun]
    /\ match = NoMatch
    /\ txn = NoTxn

ApplyValidateFile ==
    /\ fn.name = "validate_file" /\ ~fn.done
    /\ fn' = [fn EXCEPT !.done = TRUE, !.out = validate_file(fn.arg)]
    /\ UNCHANGED <<db, tmp, created, pc, req, result, ret, log, pre, latest, match, txn>>

ApplyExtractText ==
    /\ fn.name = "extract_text" /\ ~fn.done
    /\ fn' = [fn EXCEPT !.done = TRUE, !.out = extract_text(fn.arg)]
    /\ UNCHANGED <<db, tmp, created, pc, req, result, ret, log, pre, latest, match, txn>>

ApplyValidateExtraction ==
    /\ fn.name = "validate_extraction" /\ ~fn.done
    /\ fn' = [fn EXCEPT !.done = TRUE, !.out = validate_extraction(fn.arg)]
    /\ UNCHANGED <<db, tmp, created, pc, req, result, ret, log, pre, latest, match, txn>>

ApplyExtractEntities ==
    /\ fn.name = "extract_entities" /\ ~fn.done
    /\ fn' = [fn EXCEPT !.done = TRUE,
                        !.out = extract_entities(fn.arg.text, fn.arg.nlp)]
    /\ UNCHANGED <<db, tmp, created, pc, req, result, ret, log, pre, latest, match, txn>>

ApplyCalculateMatchScore ==
    /\ fn.name = "calculate_match_score" /\ ~fn.done
    /\ fn' = [fn EXCEPT !.done = TRUE,
                        !.out = calculate_match_score(fn.arg.resume_data,
                                    fn.arg.job_requirements, fn.arg.tfidf)]
    /\ UNCHANGED <<db, tmp, created, pc, req, result, ret, log, pre, latest, match, txn>>

ApplyMatchResumeToJob ==
    /\ fn.name = "match_resume_to_job" /\ ~fn.done
    /\ fn' = [fn EXCEPT !.done = TRUE,
                        !.out = match_resume_to_job(fn.arg.resume_data,
                                    fn.arg.job_requirements, fn.arg.tfidf)]
    /\ UNCHANGED <<db, tmp, created, pc, req, result, ret, log, pre, latest, match, txn>>

\* extract_entities on a text, then the matcher on the resume data
\* process_and_match prepares from its result
ExtractAndMatch(text, job_requirements, tfidf) ==
    With(extract_entities(text, NoNlp),
         LAMBDA entities :
            calculate_match_score(ResumeData(text, entities),
                                  job_requirements, tfidf))

ApplyExtractAndMatch ==
    /\ fn.name = "extract_and_match" /\ ~fn.done
    /\ fn' = [fn EXCEPT !.done = TRUE,
                        !.out = ExtractAndMatch(fn.arg.text,
                                    fn.arg.job_requirements, fn.arg.tfidf)]
    /\ UNCHANGED <<db, tmp, created, pc, req, result, ret, log, pre, latest, match, txn>>

NextFn ==
    \/ ApplyValidateFile
    \/ ApplyExtractText
    \/ ApplyValidateExtraction
    \/ ApplyExtractEntities
    \/ ApplyCalculateMatchScore
    \/ ApplyMatchResumeToJob
    \/ ApplyExtractAndMatch

SpecFn == InitFn /\ [][NextFn]_vars

----------------------------------------------------------------------------
(* Properties *)

Ran(stage) == \E i \in 1..Len(log) : log[i] = stage
InCall == pc \notin {"idle", "fn"}
ExtractionFailed == InCall /\ Ran("buffer") /\ ~result.extraction.success
ValidationFailed == InCall /\ Ran("validate") /\ ~result.validation.is_valid
Empty(dict) == DOMAIN dict = {}
TooShort == "Extracted text is too short (less than 50 characters)"

\* C1: quality gate.  Once the extraction reports success=false or the
\* verdict has is_valid=false, the invocation has run neither entity
\* extraction nor a storage write, it has returned, and what it returned
\* has success=false, a non-null error, empty entities and no analysis id.
C1_QualityGate ==
    (ExtractionFailed \/ ValidationFailed) =>
        /\ ~Ran("entities") /\ ~Ran("store") /\ ~Ran("match")
        /\ ~Ran("store_match")
        /\ db = pre
        /\ pc = "done"
        /\ ret.value.success = FALSE
        /\ ret.value.error # Null
        /\ Empty(ret.value.entities)
        /\ ret.value.analysis_id = NoId

C1_Witness ==
    /\ pc = "done" /\ ValidationFailed
    /\ req.op = "process_and_match" /\ req.application_id \in Applications

\* C2: idempotent re-storage.  Every application has at most one analysis
\* record, and none before a storage run for it committed; after that the
\* record holds the (truncated) raw_text and the confidence of the latest
\* run that committed, and its skill, experience and education children
\* are exactly the entities of that run, in order.
C2_IdempotentRestorage ==
    \A a \in AppIds :
        LET parents == {i \in 1..Len(db.analyses) :
                            db.analyses[i].application = a}
        IN /\ Cardinality(parents) <= 1
           /\ (a \notin Applications \/ ~latest[a].stored) => parents = {}
           /\ (a \in Applications /\ latest[a].stored) =>
                \E i \in parents :
                    LET row == db.analyses[i]
                        e == latest[a].entities
                        sk == RowsOf(db.skills, row.id)
                        ex == RowsOf(db.experiences, row.id)
                        ed == RowsOf(db.education, row.id)
                    IN /\ row.raw_text =
                            Prefix(latest[a].extraction.raw_text, 10000)
                       /\ row.confidence_score = e.overall_confidence
                       /\ Len(sk) = Len(e.skills)
                       /\ \A k \in 1..Len(sk) :
                            sk[k].skill_name = e.skills[k].name
                       /\ Len(ex) = Len(e.experience)
                       /\ \A k \in 1..Len(ex) :
                            ex[k].position = e.experience[k].position
                       /\ Len(ed) = Len(e.education)
                       /\ \A k \in 1..Len(ed) :
                            ed[k].degree = e.education[k].degree

\* a second storage run for an application replaced children of other counts
C2_Witness ==
    /\ pc = "done" /\ Ran("store") /\ result.success
    /\ \E i \in 1..Len(pre.analyses) :
        /\ pre.analyses[i].application = req.application_id
        /\ Len(RowsOf(pre.experiences, pre.analyses[i].id))
            > Len(result.entities.experience)
        /\ Len(RowsOf(pre.education, pre.analyses[i].id))
            < Len(result.entities.education)

\* what the storage step of the invocation in progress did, given the
\* tables it started from
StorageRaised ==
    /\ InCall /\ Ran("store")
    /\ store_analysis_results(pre, req.application_id, result.extraction,
                              result.entities).raised

MatchStorageRaised ==
    /\ InCall /\ Ran("store_match")
    /\ store_match_score(db, result.analysis_id, req.job_id,
                         match.match_result).raised

\* C3: a storage step that raises is rolled back: the analysis records and
\* the three child collections are what they were before the call.
C3_StorageRolledBack == StorageRaised => db = pre

\* the education insert failed after the application's old skills were
\* deleted and the new ones inserted
C3_Witness ==
    /\ StorageRaised /\ result.error = "ValueError"
    /\ \E i \in 1..Len(pre.analyses) :
        /\ pre.analyses[i].application = req.application_id
        /\ RowsOf(pre.skills, pre.analyses[i].id) # <<>>
    /\ result.entities.skills # <<>>

\* C4: the writes of one process_and_match invocation are one atomic unit:
\* if storing the match score fails, none of the invocation's writes remain.
C4_SingleAtomicUnit == (pc = "done" /\ MatchStorageRaised) => db = pre

\* C5: a storage step that raises fails the call: process_resume returns
\* success=false with the error while extraction, validation and entities
\* in the result are populated and valid, process_and_match returns
\* success=false when either storage step raises, and the caller gets a
\* result, not an exception.
C5_StorageFailureFailsCall ==
    /\ StorageRaised =>
        /\ pc = "done"
        /\ ret.value.success = FALSE
        /\ ret.value.error # Null
        /\ ret.value.extraction.success
        /\ ret.value.validation.is_valid
        /\ ~Empty(ret.value.entities)
    /\ MatchStorageRaised =>
        /\ pc = "done"
        /\ ret.value.success = FALSE
        /\ ret.value.error # Null

C5_Witness ==
    /\ pc = "done" /\ StorageRaised
    /\ req.entry = "direct" /\ req.op = "process_resume"
    /\ ret.value.error = "JobApplication.DoesNotExist"

\* C6: no temporary file that extract_from_upload created exists once the
\* call has returned.
C6_TempFileRemoved == \A id \in 1..created : id \notin tmp

\* C7: extract_text on a path with another suffix than .pdf, or on a path
\* of no file, does not raise: it returns success=false with an error.
C7_RejectsWithoutRaising ==
    (/\ fn.name = "extract_text" /\ fn.done
     /\ \/ ~fn.arg.exists
        \/ ~EndsWith(Lower(fn.arg.name), ".pdf")) =>
        /\ ~fn.out.raised
        /\ fn.out.value.success = FALSE
        /\ fn.out.value.error # Null

PdfName(name) ==
    Len(name) >= 4 /\ Lower(SubSeq(name, Len(name) - 3, Len(name))) = ".pdf"

\* C8: validate_file gives is_valid=true exactly when the name ends with
\* .pdf in any case, the size is positive and the size is at most 10MB;
\* issues holds the message of each violated rule and nothing else.
C8_ValidateFileRules ==
    (fn.name = "validate_file" /\ fn.done) =>
        LET u == fn.arg
            said == {fn.out.issues[i] : i \in 1..Len(fn.out.issues)}
        IN /\ fn.out.is_valid =
                (PdfName(u.name) /\ u.size > 0 /\ u.size <= 10 * 1024 * 1024)
           /\ ("Only PDF files are supported" \in said) = ~PdfName(u.name)
           /\ ("File size exceeds 10MB limit" \in said)
                = (u.size > 10 * 1024 * 1024)
           /\ ("File is empty" \in said) = (u.size = 0)
           /\ said \subseteq {"Only PDF files are supported",
                              "File size exceeds 10MB limit", "File is empty"}
           /\ Cardinality(said) = Len(fn.out.issues)

\* two rules violated at once, both reported
C8_Witness ==
    /\ fn.name = "validate_file" /\ fn.done
    /\ fn.arg.name = "resume.txt" /\ fn.arg.size = 0
    /\ Len(fn.out.issues) = 2

FileRejected == InCall /\ req.has_file /\ ~validate_file(req.file).is_valid

\* C9 as stated: process_resume and process_and_match attempt no buffering
\* or extraction for an input the file rules reject.
C9_ProcessorRejectsInput ==
    (InCall /\ ~validate_file(req.file).is_valid) => ~Ran("buffer")

\* C9 amended: the views process_resume_api and process_and_match_api
\* return an error reply for a file the file rules reject without calling
\* the processor, so nothing is buffered, extracted or stored; the reply of
\* process_resume_api is the 400 with the messages of the violated rules.
C9_ViewsRejectInput ==
    (InCall /\ req.entry = "api" /\ FileRejected) =>
        /\ log = <<>>
        /\ pc = "done"
        /\ db = pre
        /\ ret.status \in {400, 403, 500}
        /\ ret.value.success = FALSE
        /\ req.op = "process_resume" =>
            /\ ret.status = 400
            /\ ret.value.error = "File validation failed"
            /\ ret.value.issues = validate_file(req.file).issues

C9_Witness ==
    /\ pc = "done" /\ req.entry = "api" /\ FileRejected
    /\ req.op = "process_and_match" /\ ret.status = 400
    /\ ret.value.error = "File validation failed"

\* C10: for a successful extraction with a raw_text of fewer than 50
\* characters validate_extraction gives is_valid=false and the issues
\* include the "too short" one.
C10_ShortTextInvalid ==
    (/\ fn.name = "validate_extraction" /\ fn.done
     /\ fn.arg.success /\ Len(fn.arg.raw_text) < 50) =>
        /\ fn.out.is_valid = FALSE
        /\ \E i \in 1..Len(fn.out.issues) : fn.out.issues[i] = TooShort

\* the skill names of an extract_entities result
NamesOf(entities) == [k \in 1..Len(entities.skills) |-> entities.skills[k].name]

\* C11: for a successful extraction whose text contains none of the resume
\* keywords validate_extraction gives is_valid=false and a quality_score
\* below 0.5, whatever the length, the word count and the page count are.
C11_NoKeywordsInvalid ==
    (/\ fn.name = "validate_extraction" /\ fn.done
     /\ fn.arg.success /\ found_keywords(fn.arg.raw_text) = 0) =>
        /\ fn.out.is_valid = FALSE
        /\ fn.out.quality_score < 5

\* C12: the skill names of one extract_entities result are unique up to
\* case: a skill written in several casings gives one entry, the first.
C12_SkillNamesUniqueIgnoringCase ==
    (fn.name = "extract_entities" /\ fn.done) =>
        LET names == NamesOf(fn.out)
        IN /\ \A i, j \in 1..Len(names) :
                Lower(names[i]) = Lower(names[j]) => i = j
           /\ fn.arg.text = TextCasings => names = <<"Python">>

MatchScored == fn.name = "calculate_match_score" /\ fn.done

InUnit(q) == QLe(Zero, q) /\ QLe(q, One)

\* C13: calculate_match_score returns an overall_score between 0 and 100,
\* each of the four component scores between 0 and 1, and the overall_score
\* is min(100, 100 x (0.4 skills + 0.3 experience + 0.2 education
\* + 0.1 text_similarity)).
C13_ScoreBounds ==
    MatchScored =>
        LET o == fn.out
            sum == QAdd(QAdd(QMul(Q(4, 10), o.skills_match),
                             QMul(Q(3, 10), o.experience_match)),
                        QAdd(QMul(Q(2, 10), o.education_match),
                             QMul(Q(1, 10), o.text_similarity)))
        IN /\ QLe(Zero, o.overall_score) /\ QLe(o.overall_score, Q(100, 1))
           /\ InUnit(o.skills_match) /\ InUnit(o.experience_match)
           /\ InUnit(o.education_match) /\ InUnit(o.text_similarity)
           /\ o.overall_score = QMin(Q(100, 1), QMul(Q(100, 1), sum))

\* six years of experience against three required: the years score is at
\* its cap
C13_Witness ==
    /\ MatchScored
    /\ fn.arg.resume_data = ResumeHand /\ fn.arg.job_requirements = JobA
    /\ fn.out.detailed_analysis.experience.years_experience = 6
    /\ fn.out.detailed_analysis.experience.required_years = 3
    /\ fn.out.experience_match = One
    /\ fn.out.text_similarity = Q(1, 2)
    /\ fn.out.overall_score = Q(95, 1)

\* C14: for a job whose skills_required is the empty list and a resume
\* with no skills the skills match score is 0.5.
C14_NoPenaltyDefault ==
    (/\ MatchScored
     /\ "skills_required" \in DOMAIN fn.arg.job_requirements
     /\ fn.arg.job_requirements.skills_required = <<>>
     /\ fn.arg.resume_data.skills = <<>>) =>
        fn.out.skills_match = Q(1, 2)

\* job_requirements with one more entry in its skills_required list
AddRequired(job_requirements, skill) ==
    [x \in DOMAIN job_requirements \cup {"skills_required"} |->
        IF x = "skills_required"
        THEN Append(Get(job_requirements, "skills_required", <<>>), St(skill))
        ELSE job_requirements[x]]

\* the skills score of the call's resume once skill is required as well
ScoreWith(skill) ==
    calculate_skills_match(fn.arg.resume_data,
                           AddRequired(fn.arg.job_requirements, skill)).score

\* the lowered skill names of the call's resume
ResumeSkillNames ==
    {Lower(fn.arg.resume_data.skills[k].name) :
        k \in {k \in 1..Len(fn.arg.resume_data.skills) :
                    "name" \in DOMAIN fn.arg.resume_data.skills[k]}}

AddedSkills == {"python", "Python", "reactjs", "django", "go", ""}

C16_ScenarioAMatches ==
    (fn.name = "extract_and_match" /\ fn.done /\ fn.arg.text = ScenarioA) =>
        /\ fn.out.missing_requirements = <<>>
        /\ QLe(Q(60, 1), fn.out.overall_score)

\* the matcher took its except clause in the invocation in progress
MatcherFailed ==
    InCall /\ Ran("match") /\ "error" \in DOMAIN match.match_result

\* C17: when calculate_match_score fails internally, match_resume_to_job
\* returns success=false and process_and_match returns success=false.
C17_MatcherErrorIsFailure ==
    MatcherFailed =>
        /\ match.success = FALSE
        /\ pc = "done" => ret.value.success = FALSE

Validated == fn.name = "validate_extraction" /\ fn.done

\* the four quality checks of a successful extraction: length, keywords,
\* word count, and a page that was parsed (an entry without an error)
LengthOk(x) == Len(Strip(x.raw_text)) >= 50
KeywordsOk(x) == found_keywords(x.raw_text) >= 2
WordCountOk(x) == 20 <= WordCount(x.raw_text) /\ WordCount(x.raw_text) <= 5000
PageParsed(x) == \E k \in 1..Len(x.pages) : "error" \notin DOMAIN x.pages[k]

\* C18: for a successful extraction quality_score is 0.2 for a stripped
\* length of at least 50, plus 0.3 for two keywords, plus 0.3 for a word
\* count in 20..5000, plus 0.2 for at least one successfully parsed page,
\* and is_valid is quality_score >= 0.5; for a failed extraction the score
\* is 0.0 and is_valid is false.
C18_QualityFormula ==
    (Validated /\ fn.arg \in Extracted \cup {UploadFailure("cannot open pdf")}) =>
        LET x == fn.arg
            score == IF ~x.success THEN 0
                     ELSE (IF LengthOk(x) THEN 2 ELSE 0)
                        + (IF KeywordsOk(x) THEN 3 ELSE 0)
                        + (IF WordCountOk(x) THEN 3 ELSE 0)
                        + (IF PageParsed(x) THEN 2 ELSE 0)
        IN /\ fn.out.quality_score = score
           /\ fn.out.is_valid = (x.success /\ score >= 5)

\* the checks of a successful extraction that withhold their weight
FailedChecks(x) ==
    {c \in {"length", "keywords", "words", "pages"} :
        \/ c = "length" /\ ~LengthOk(x)
        \/ c = "keywords" /\ ~KeywordsOk(x)
        \/ c = "words" /\ ~WordCountOk(x)
        \/ c = "pages" /\ x.metadata.pages = 0}

\* C19: every quality check that fails has its own issue string in the
\* verdict, so a quality_score below 1.0 comes with a non-empty issues
\* list that has one issue for each check that withheld its weight.
C19_EveryFailedCheckHasIssue ==
    (Validated /\ fn.arg.success) =>
        /\ Len(fn.out.issues) >= Cardinality(FailedChecks(fn.arg))
        /\ fn.out.quality_score < 10 => fn.out.issues # <<>>

\* the skills sub-extraction of the call raised: the spaCy model did
SkillsFault ==
    /\ fn.name = "extract_entities" /\ fn.done
    /\ Strip(fn.arg.text) # ""
    /\ fn.arg.nlp.loaded /\ fn.arg.nlp.raises

\* C20: when the skills sub-extraction raises, the skills of the result
\* are the empty list with confidence 0.0, the other three categories are
\* what they are without the fault, and the result has no error.
C20_FaultEmptiesCategory ==
    SkillsFault =>
        /\ fn.out.skills = <<>>
        /\ fn.out.confidence_scores.skills = 0
        /\ "error" \notin DOMAIN fn.out
        /\ \A c \in {"experience", "education", "contact_info"} :
                fn.out[c] = extract_entities(fn.arg.text, NoNlp)[c]

EntitiesExtracted ==
    fn.name = "extract_entities" /\ fn.done /\ Strip(fn.arg.text) # ""

\* the sum of the category confidences of a result, in tenths
ConfidenceSum(entities) ==
    LET F[c \in SUBSET DOMAIN entities.confidence_scores] ==
            IF c = {} THEN 0
            ELSE LET k == CHOOSE k \in c : TRUE
                 IN entities.confidence_scores[k] + F[c \ {k}]
    IN F[DOMAIN entities.confidence_scores]

\* C21 as stated: for non-blank text overall_confidence is the mean of the
\* four category confidences, skills, experience, education and contact,
\* and lies in [0,1].
C21_MeanOfFourConfidences ==
    EntitiesExtracted =>
        /\ DOMAIN fn.out.confidence_scores
                = {"skills", "experience", "education", "contact"}
        /\ fn.out.overall_confidence.num * 10 * 4
                = ConfidenceSum(fn.out) * fn.out.overall_confidence.den
        /\ fn.out.overall_confidence.num <= fn.out.overall_confidence.den

\* C21 amended: for non-blank text overall_confidence is the mean of the
\* three category confidences there are, skills, experience and education,
\* it lies in [0,1], and the result has no error field.
C21_MeanOfThreeConfidences ==
    EntitiesExtracted =>
        /\ DOMAIN fn.out.confidence_scores
                = {"skills", "experience", "education"}
        /\ fn.out.overall_confidence.num * 10 * 3
                = ConfidenceSum(fn.out) * fn.out.overall_confidence.den
        /\ 0 <= fn.out.overall_confidence.num
        /\ fn.out.overall_confidence.num <= fn.out.overall_confidence.den
        /\ "error" \notin DOMAIN fn.out

\* a text with entities in all three scored categories
C21_Witness ==
    /\ EntitiesExtracted
    /\ fn.out.confidence_scores.skills > 0
    /\ fn.out.confidence_scores.experience > 0
    /\ fn.out.confidence_scores.education > 0
    /\ fn.out.overall_confidence.den = 30

\* the required skills a match result was computed from: those it reports
\* as matched and those it reports as missing
RequiredUsed(out) ==
    LET sk == out.detailed_analysis.skills
    IN {sk.matched_skills[k].required : k \in 1..Len(sk.matched_skills)}
       \cup {sk.missing_skills[k] : k \in 1..Len(sk.missing_skills)}

\* the lowered names of the job's explicit skills_required list
ListedNames(job_requirements) ==
    LET listed == ListedSkills(job_requirements).value
    IN {listed[k] : k \in 1..Len(listed)}

\* C22: when the job has an explicit skills_required list, the required
\* skills behind the skills score and behind missing_requirements are
\* exactly that list; the job text is mined only when there is no list.
C22_ExplicitListOnly ==
    (/\ MatchScored /\ "error" \notin DOMAIN fn.out
     /\ "skills_required" \in DOMAIN fn.arg.job_requirements) =>
        LET listed == ListedNames(fn.arg.job_requirements)
            missing == fn.out.missing_requirements
        IN /\ RequiredUsed(fn.out) = listed
           /\ \A k \in 1..Len(missing) :
                Prefix(missing[k], 7) = "Skill: " =>
                    missing[k] \in {"Skill: " \o n : n \in listed}

\* a scored pair whose resume has experience entries
ExperienceScored ==
    /\ MatchScored /\ "error" \notin DOMAIN fn.out
    /\ Get(fn.arg.resume_data, "experience", <<>>) # <<>>

\* 1.0 when the rank reaches the required rank, else the rank ratio
RankRatio(actual, required) ==
    IF actual >= required THEN One ELSE Q(actual, required)

\* C23: for a resume with experience entries and a job with a required
\* years count N or a required level, the years ratio is 1.0 when the total
\* years are at least N (0 when no years are stated) and total/N otherwise;
\* the score is the years ratio when no level was found and the average of
\* the years ratio and the level match when one was.
C23_ExperienceFormula ==
    (/\ ExperienceScored
     /\ DOMAIN extract_experience_requirements(fn.arg.job_requirements) # {}) =>
        LET required == extract_experience_requirements(fn.arg.job_requirements)
            ex == fn.out.detailed_analysis.experience
            N == Get(required, "years", 0)
            years_ratio == IF ex.years_experience >= N THEN One
                           ELSE Q(ex.years_experience, N)
        IN fn.out.experience_match =
            IF "level" \in DOMAIN required
            THEN QMul(QAdd(years_ratio,
                           RankRatio(level_hierarchy[ex.experience_level],
                                     level_hierarchy[required.level])),
                      Q(1, 2))
            ELSE years_ratio

\* the job text names neither a degree nor a field
NoEducationRequired ==
    DOMAIN extract_education_requirements(fn.arg.job_requirements) = {}

\* C24: the education score is 0.7 for every resume when the job text
\* declares no education requirement, and otherwise the average of the
\* degree rank ratio and the field bonus, 1.0 on a field match, else 0.5.
C24_EducationFormula ==
    (MatchScored /\ "error" \notin DOMAIN fn.out) =>
        IF NoEducationRequired THEN fn.out.education_match = Q(7, 10)
        ELSE LET required ==
                    extract_education_requirements(fn.arg.job_requirements)
                 education == Get(fn.arg.resume_data, "education", <<>>)
             IN fn.out.education_match =
                    QMul(QAdd(RankRatio(
                                Rank(degree_hierarchy,
                                     find_highest_degree(education)),
                                Rank(degree_hierarchy,
                                     Get(required, "degree", "any"))),
                              IF check_field_match(education,
                                        Get(required, "field", "any"))
                              THEN One ELSE Q(1, 2)),
                         Q(1, 2))

\* C25: stage order of a process_and_match invocation with an application
\* id is extraction, validation, entity extraction, matching, storage: as
\* long as the matching stage has not run, the invocation has run no
\* storage step and the tables are what they were when it started.
C25_NoWriteBeforeMatch ==
    (/\ InCall /\ req.op = "process_and_match"
     /\ req.application_id # NoId /\ ~Ran("match")) =>
        /\ ~Ran("store")
        /\ ~Ran("store_match")
        /\ db = pre

BothStored == \A i \in Concurrent : txn[i].pc = "done"

\* the children of analysis id are the entity set e, in order
StoredEntities(id, e) ==
    LET sk == RowsOf(db.skills, id)
        ex == RowsOf(db.experiences, id)
        ed == RowsOf(db.education, id)
    IN /\ Len(sk) = Len(e.skills)
       /\ \A k \in 1..Len(sk) : sk[k].skill_name = e.skills[k].name
       /\ Len(ex) = Len(e.experience)
       /\ \A k \in 1..Len(ex) :
            /\ ex[k].position = e.experience[k].position
            /\ ex[k].duration = e.experience[k].duration
       /\ Len(ed) = Len(e.education)
       /\ \A k \in 1..Len(ed) : ed[k].degree = e.education[k].degree

\* C26: concurrent storage for one application.  Once two storage runs for
\* the same application that were open at the same time have both ended,
\* the application has exactly one analysis record and its skill,
\* experience and education children are the entity set of one of the two
\* runs, in every interleaving of their statements.
C26_OneEntitySetPersisted ==
    BothStored =>
        /\ Cardinality(AnalysesOf(db, StoreApplication)) = 1
        /\ \E i \in Concurrent :
            \A id \in AnalysesOf(db, StoreApplication) :
                StoredEntities(id, txn[i].entities)

\* process_resume has returned: to its caller, or to process_and_match
ProcessResumeReturned ==
    /\ InCall /\ Ran("buffer")
    /\ pc \in {"done", "match", "store_match"}

ResultKeys ==
    {"success", "error", "extraction", "validation", "entities", "analysis_id"}

\* C27: every result process_resume returns has the keys success, error,
\* extraction, validation, entities and analysis_id; success=true implies
\* extraction.success, validation.is_valid and a null error; success=false
\* implies a non-null error; analysis_id is non-null only if success=true
\* and an application id was supplied.  No exception escapes: a call of
\* process_resume ends with its caller holding that result.
C27_ResultInvariants ==
    ProcessResumeReturned =>
        /\ DOMAIN result = ResultKeys
        /\ result.success =>
            /\ result.extraction.success
            /\ result.validation.is_valid
            /\ result.error = Null
        /\ ~result.success => result.error # Null
        /\ result.analysis_id # NoId =>
            result.success /\ req.application_id # NoId
        /\ req.op = "process_resume" => pc = "done" /\ ret.value = result

\* a storage step that raised inside a call with an application id, and
\* the result the caller got
C27_Witness ==
    /\ ProcessResumeReturned /\ req.op = "process_resume"
    /\ req.application_id # NoId /\ StorageRaised
    /\ ~result.success /\ result.error = "ValueError"
    /\ result.analysis_id = NoId

\* the storage step of the invocation in progress was given an education
\* entry for which the extractor recovered no year
StoredWithoutYear ==
    /\ InCall /\ Ran("store") /\ req.application_id \in Applications
    /\ \E k \in 1..Len(result.entities.education) :
        result.entities.education[k].year = ""

\* C28: storing an entity set does not fail because an education entry has
\* no year: when process_resume runs with an application id and the
\* extractor gave the empty string as an entry's year, the storage step
\* succeeds and the entry is persisted.
C28_MissingYearPersisted ==
    StoredWithoutYear =>
        /\ ~StorageRaised
        /\ result.success
        /\ result.analysis_id # NoId
        /\ Len(RowsOf(db.education, result.analysis_id))
            = Len(result.entities.education)

\* the job text states neither a years count nor a level
NoExperienceRequired ==
    DOMAIN extract_experience_requirements(fn.arg.job_requirements) = {}

\* C29: the experience score is 0.0 whenever the job text declares no
\* experience requirement, whatever experience the resume has, and 0.0 for
\* every job when the resume has no experience entries: there is no
\* neutral default.
C29_NoExperienceDefault ==
    (/\ MatchScored /\ "error" \notin DOMAIN fn.out
     /\ \/ NoExperienceRequired
        \/ Get(fn.arg.resume_data, "experience", <<>>) = <<>>) =>
        fn.out.experience_match = Zero

\* a resume with years of experience against a job that asks for none
C29_Witness ==
    /\ ExperienceScored /\ NoExperienceRequired
    /\ fn.out.detailed_analysis.experience.years_experience > 0
    /\ fn.out.experience_match = Zero

\* a field is mined from the job text
FieldRequired ==
    "field" \in DOMAIN extract_education_requirements(fn.arg.job_requirements)

\* some entry has no field_of_study, or an empty one
HasBlankField(education) ==
    \E e \in 1..Len(education) : Get(education[e], "field_of_study", "") = ""

\* C30: when a field is mined from the job text, a resume education entry
\* whose field_of_study is missing or empty counts as a field match:
\* field_match is true and the field bonus in the education score is 1.0.
\* The entries extract_entities produces carry no field_of_study, so this
\* holds of every non-empty education list it produces.
C30_BlankFieldMatches ==
    /\ (/\ MatchScored /\ "error" \notin DOMAIN fn.out /\ FieldRequired
        /\ HasBlankField(Get(fn.arg.resume_data, "education", <<>>))) =>
            LET required ==
                    extract_education_requirements(fn.arg.job_requirements)
                education == fn.arg.resume_data.education
            IN /\ fn.out.detailed_analysis.education.field_match = TRUE
               /\ fn.out.education_match =
                    QMul(QAdd(RankRatio(
                                Rank(degree_hierarchy,
                                     find_highest_degree(education)),
                                Rank(degree_hierarchy,
                                     Get(required, "degree", "any"))),
                              One),
                         Q(1, 2))
    /\ EntitiesExtracted =>
        \A k \in 1..Len(fn.out.education) :
            "field_of_study" \notin DOMAIN fn.out.education[k]

\* the education list extract_entities gave for a text, against a job that
\* asks for another field than any the text names
C30_Witness ==
    /\ MatchScored /\ "error" \notin DOMAIN fn.out
    /\ fn.arg.resume_data = ResumeData(TextA, extract_entities(TextA, NoNlp))
    /\ fn.arg.resume_data.education # <<>>
    /\ FieldRequired
    /\ Get(extract_education_requirements(fn.arg.job_requirements),
           "field", "any") = "computer science"
    /\ fn.out.detailed_analysis.education.field_match = TRUE

====
